---- MODULE Spec2Model ----
(***************************************************************************)
(* Context Budget Controller of SillyTavern-Context-Truncator.             *)
(*                                                                         *)
(* The repository holds two variants of the controller:                    *)
(*   "adaptive"  src/index.js          (estimate-driven cutoff, resilience *)
(*                                      monitor, calibration state machine)*)
(*   "simple"    src/unnamed/part_001  (one batch per intercept, driven by *)
(*                                      the previous prompt size)          *)
(* Which one is installed is fixed at construction (variable variant).     *)
(*                                                                         *)
(* Indices are the source's 0-based message indices: message i of the      *)
(* source is chat[i + 1].  Token amounts are small integers.  The          *)
(* correction factor is kept in thousandths (1000 = 1.0).                  *)
(* Qdrant memory retrieval is off (default_settings.qdrant_enabled) except *)
(* in the specifications that turn it on.                                  *)
(***************************************************************************)
EXTENDS Integers, Sequences, FiniteSets, TLC

\* ------------------------------------------------------------------ bounds
MaxLen == 4
MaxDeletionCount == 4
MaxRun == 9
MaxFactorUpdates == 1
MaxHistory == 3
MaxEditedLen == 3
MaxSnapshotUses == 2
MaxFed == 45
MaxScenarioFed == 3
MaxSummarizeCalls == 2
MaxLoops == 2
MaxStops == 2

\* ------------------------------------------------------- program constants
Null == -1
DELETION_TOLERANCE == 3
TRAINING_GENERATIONS == 2
STABLE_THRESHOLD == 5

VARIABLES
    variant,
    chat,
    settings,
    TRUNCATION_INDEX,
    CURRENT_CONTEXT_SIZE,
    rawPrompt,
    chat_metadata,
    CHAT_TOKEN_CORRECTION_FACTOR,
    LAST_PREDICTED,
    CALIBRATION_STATE,
    GENERATION_COUNT,
    STABLE_COUNT,
    RETRAIN_COUNT,
    DELETION_COUNT,
    LAST_CHAT_LENGTH,
    LAST_CHAT_HASHES,
    statusTimer,
    factorUpdates,
    history,
    fed,
    summaryQueue,
    connection_profile,
    qdrant,
    steps,
    search,
    batch,
    last

vars == <<variant, chat, settings, TRUNCATION_INDEX, CURRENT_CONTEXT_SIZE,
          rawPrompt, chat_metadata, CHAT_TOKEN_CORRECTION_FACTOR,
          LAST_PREDICTED, CALIBRATION_STATE, GENERATION_COUNT, STABLE_COUNT,
          RETRAIN_COUNT, DELETION_COUNT, LAST_CHAT_LENGTH, LAST_CHAT_HASHES,
          statusTimer, factorUpdates, history, fed, summaryQueue,
          connection_profile, qdrant, steps, search, batch, last>>

\* ----------------------------------------------------------------- helpers
Min(a, b) == IF a < b THEN a ELSE b
Max(a, b) == IF a > b THEN a ELSE b
Abs(a) == IF a < 0 THEN 0 - a ELSE a

\* Message texts are drawn from a small alphabet; equal texts are equal ids.
Texts == {1, 2}

\* getStringHash: a nonzero number per text, equal for equal texts.
getStringHash(text) == 100 + text

\* ctx.getTokenCount of a message text.
count_tokens(text) == text

\* count_tokens of a role header, of a stored summary and of the separator.
promptHeaderTokens == 1
SummaryTokens == 1
calculate_injection_separator_size == 0

\* A reading of the index that is one too high for an index that is set.
OrZeroOffByOne(ti) == IF ti = Null THEN 0 ELSE ti + 1

\* TRUNCATION_INDEX || 0
OrZero(ti) == IF ti = Null THEN 0 ELSE ti

NoPrompt == [total |-> 0, chat |-> 0]

NewMessage(text, isUser) ==
    [mes |-> text, is_user |-> isUser, is_system |-> FALSE,
     is_thoughts |-> FALSE, remember |-> FALSE, exclude |-> FALSE,
     memory |-> FALSE, hash |-> 0,
     lagging |-> FALSE, needs_summary |-> FALSE, error |-> FALSE]

compute_message_hash(message) == getStringHash(message.mes)

\* ------------------------------------------------- calculate_truncation_index
\* check_message_exclusion for a message that exists.  include_user_messages,
\* include_system_messages and message_length_threshold are no keys of
\* default_settings: get_settings returns undefined for them, so user and
\* system messages are refused and the length test is never true.
check_message_exclusion(message) ==
    IF message.remember THEN TRUE
    ELSE IF message.exclude THEN FALSE
    ELSE IF message.is_user THEN FALSE
    ELSE IF message.is_thoughts THEN FALSE
    ELSE IF message.is_system THEN FALSE
    ELSE TRUE

\* estimateMessagePromptTokens.  The source first looks the message up in
\* the token map built from the segments of the raw prompt and falls back on
\* count_tokens(mes) + header tokens; here a segment of the raw prompt costs
\* what the fallback counts, so both branches give the same number.
estimateMessagePromptTokens(message) == count_tokens(message.mes) + promptHeaderTokens

RECURSIVE estimateChatSizeFrom(_, _, _, _)
estimateChatSizeFrom(c, startIndex, cf, k) ==
    IF k > Len(c) THEN 0
    ELSE LET message == c[k]
             lagging == (k - 1) < startIndex
             part == IF message.is_system THEN 0
                     ELSE IF ~lagging
                     THEN (estimateMessagePromptTokens(message) * cf) \div 1000
                     ELSE IF message.memory /\ check_message_exclusion(message)
                          THEN SummaryTokens + calculate_injection_separator_size
                          ELSE 0
         IN part + estimateChatSizeFrom(c, startIndex, cf, k + 1)

estimateChatSize(c, startIndex, cf) == estimateChatSizeFrom(c, startIndex, cf, 1)

\* Non-chat budget: 15% of the current prompt size without a raw prompt,
\* else total - chat tokens of the raw prompt.
nonChatBudgetOf(rp, currentPromptSize) ==
    IF rp = NoPrompt THEN (currentPromptSize * 15) \div 100
    ELSE Max(rp.total - rp.chat, 0)

\* A scan that returns the index before the first one that fits.
RECURSIVE SubBatchScanOffByOne(_, _, _, _, _, _)
SubBatchScanOffByOne(c, cf, nonChat, targetSize, i, stepEnd) ==
    IF i >= stepEnd THEN i
    ELSE IF estimateChatSize(c, i + 1, cf) + nonChat <= targetSize THEN i
    ELSE SubBatchScanOffByOne(c, cf, nonChat, targetSize, i + 1, stepEnd)

\* Fine-grained scan inside the final batch (for i = nextIndex .. stepEnd - 1).
RECURSIVE SubBatchScan(_, _, _, _, _, _)
SubBatchScan(c, cf, nonChat, targetSize, i, stepEnd) ==
    IF i >= stepEnd THEN i
    ELSE IF estimateChatSize(c, i + 1, cf) + nonChat <= targetSize THEN i + 1
    ELSE SubBatchScan(c, cf, nonChat, targetSize, i + 1, stepEnd)

\* A loop that steps one message at a time whatever the batch size.
RECURSIVE BatchLoopByOne(_, _, _, _, _, _, _, _)
BatchLoopByOne(c, cf, nonChat, targetSize, batchSize, maxIndex, nextIndex, visited) ==
    IF estimateChatSize(c, nextIndex, cf) + nonChat > targetSize /\ nextIndex < maxIndex
    THEN LET stepEnd == Min(nextIndex + 1, maxIndex)
         IN IF estimateChatSize(c, stepEnd, cf) + nonChat <= targetSize
            THEN [next |-> SubBatchScan(c, cf, nonChat, targetSize, nextIndex, stepEnd),
                  visited |-> visited, scanned |-> TRUE]
            ELSE IF stepEnd >= maxIndex
                 THEN [next |-> stepEnd, visited |-> visited, scanned |-> FALSE]
                 ELSE BatchLoopByOne(c, cf, nonChat, targetSize, batchSize, maxIndex,
                                     stepEnd, Append(visited, stepEnd))
    ELSE [next |-> nextIndex, visited |-> visited, scanned |-> FALSE]

\* The while loop over batches.  Returns the final nextIndex, the batch ends
\* passed through before the final batch, and whether the scan ran.
RECURSIVE BatchLoop(_, _, _, _, _, _, _, _)
BatchLoop(c, cf, nonChat, targetSize, batchSize, maxIndex, nextIndex, visited) ==
    IF estimateChatSize(c, nextIndex, cf) + nonChat > targetSize /\ nextIndex < maxIndex
    THEN LET stepEnd == IF batchSize > 0
                        THEN Min(nextIndex + batchSize, maxIndex)
                        ELSE nextIndex
         IN IF estimateChatSize(c, stepEnd, cf) + nonChat <= targetSize
            THEN [next |-> SubBatchScan(c, cf, nonChat, targetSize, nextIndex, stepEnd),
                  visited |-> visited, scanned |-> TRUE]
            ELSE IF stepEnd >= maxIndex
                 THEN [next |-> stepEnd, visited |-> visited, scanned |-> FALSE]
                 ELSE BatchLoop(c, cf, nonChat, targetSize, batchSize, maxIndex,
                                stepEnd, Append(visited, stepEnd))
    ELSE [next |-> nextIndex, visited |-> visited, scanned |-> FALSE]

\* Record of one pass of the eviction decision: whether it was called,
\* whether it got past the early returns, the index it started from and the one it
\* returned, the batch ends it passed through before its final batch,
\* whether the sub-batch scan ran, whether the estimate at the start was
\* over target, the floor and the non-chat budget.
NoPass == [called |-> FALSE, ran |-> FALSE, start |-> 0, final |-> 0,
           visited |-> << >>, scanned |-> FALSE, over |-> FALSE, floor |-> 0,
           nonChat |-> 0]

\* Result of calculate_truncation_index: the index it returns, the
\* predictions it stores, and a record of the pass.
calculate_truncation_index(c, st, ti, ctxSize, rp, cf, lastPred) ==
    LET targetSize == st.target_context_size
        currentIndex == OrZero(ti)
        maxIndex == Max(Len(c) - st.min_messages_to_keep, 0)
        nonChat == nonChatBudgetOf(rp, ctxSize)
        loop == BatchLoop(c, cf, nonChat, targetSize, st.batch_size, maxIndex,
                          Min(currentIndex, maxIndex), << >>)
        finalIndex == Max(loop.next, currentIndex)
        predictedChat == estimateChatSize(c, finalIndex, cf)
        over == estimateChatSize(c, currentIndex, cf) + nonChat > targetSize
    IN IF ctxSize = 0 \/ ctxSize <= targetSize
       THEN [index |-> 0, predicted |-> lastPred,
             pass |-> [NoPass EXCEPT !.called = TRUE, !.start = currentIndex,
                                     !.over = over, !.floor = maxIndex,
                                     !.nonChat = nonChat]]
       ELSE [index |-> finalIndex,
             predicted |-> [total |-> predictedChat + nonChat,
                            chat |-> predictedChat, nonChat |-> nonChat],
             pass |-> [called |-> TRUE, ran |-> TRUE,
                       start |-> Min(currentIndex, maxIndex),
                       final |-> finalIndex, visited |-> loop.visited,
                       scanned |-> loop.scanned, over |-> over,
                       floor |-> maxIndex, nonChat |-> nonChat]]

\* Record of one call of calculate_calibrated_target: whether it was called,
\* the target it read and the final target it computed.
NoRetarget == [called |-> FALSE, current |-> 0, final |-> 0]

\* ------------------------------------------------------------------ ledger
\* The free-standing module variables that load/save/reset act on, and the
\* target setting that calibration rewrites, gathered in one record so that
\* a handler's calls compose.
Ledger ==
    [ti |-> TRUNCATION_INDEX, cf |-> CHAT_TOKEN_CORRECTION_FACTOR,
     state |-> CALIBRATION_STATE, gen |-> GENERATION_COUNT,
     stable |-> STABLE_COUNT, retrain |-> RETRAIN_COUNT,
     del |-> DELETION_COUNT, meta |-> chat_metadata,
     pred |-> LAST_PREDICTED, pass |-> NoPass,
     target |-> settings.target_context_size, retarget |-> NoRetarget]

NoMetadata ==
    [saved |-> FALSE, truncation_index |-> Null, target_size |-> 0,
     correction_factor |-> 0, calibration_state |-> "WAITING",
     generation_count |-> 0, stable_count |-> 0, retrain_count |-> 0,
     deletion_count |-> 0]

load_truncation_index(L) ==
    IF L.meta.saved
    THEN [L EXCEPT !.ti = L.meta.truncation_index,
                   !.cf = L.meta.correction_factor,
                   !.state = L.meta.calibration_state,
                   !.gen = L.meta.generation_count,
                   !.stable = L.meta.stable_count,
                   !.retrain = L.meta.retrain_count,
                   !.del = L.meta.deletion_count]
    ELSE [L EXCEPT !.state = "WAITING", !.gen = 0, !.stable = 0,
                   !.retrain = 0, !.del = 0]

save_truncation_index(L) ==
    [L EXCEPT !.meta = [saved |-> TRUE, truncation_index |-> L.ti,
                        target_size |-> L.target,
                        correction_factor |-> L.cf,
                        calibration_state |-> L.state,
                        generation_count |-> L.gen,
                        stable_count |-> L.stable,
                        retrain_count |-> L.retrain,
                        deletion_count |-> L.del]]

reset_truncation_index(L) == save_truncation_index([L EXCEPT !.ti = Null])

reset_calibration(L) ==
    [L EXCEPT !.state = "WAITING", !.gen = 0, !.stable = 0, !.retrain = 0,
              !.cf = 1000]

\* percentChange > 5, with percentChange = |cf - saved| / saved * 100.
should_recalculate_truncation(L) ==
    /\ L.meta.saved
    /\ \/ L.meta.target_size # L.target
       \/ 100 * Abs(L.cf - L.meta.correction_factor) > 5 * L.meta.correction_factor

\* Whether update_message_inclusion_flags calls calculate_truncation_index
\* for an index value.
NeedsCalculation(ti) == ti = Null \/ ti = 0

\* update_message_inclusion_flags, ledger part: load, forced recalculation,
\* calculation when the index is unset or 0.
AfterLoad(L) ==
    LET L1 == IF L.ti = Null THEN load_truncation_index(L) ELSE L
    IN IF should_recalculate_truncation(L1) THEN [L1 EXCEPT !.ti = Null] ELSE L1

InclusionLedger(L, c, st, ctxSize, rp) ==
    LET L2 == CHOOSE x \in {AfterLoad(L)} : TRUE
    IN IF NeedsCalculation(L2.ti)
       THEN LET r == CHOOSE x \in {calculate_truncation_index(
                                      c, [st EXCEPT !.target_context_size = L2.target],
                                      L2.ti, ctxSize, rp, L2.cf, L2.pred)} : TRUE
            IN save_truncation_index(
                   [L2 EXCEPT !.ti = r.index, !.pred = r.predicted, !.pass = r.pass])
       ELSE L2

\* update_message_inclusion_flags, message part: the lagging flag of every
\* message, and needs_summary of a lagging message without a summary.
InclusionFlags(c, ti) ==
    [k \in 1 .. Len(c) |->
        LET lagging == (k - 1) < ti
        IN [c[k] EXCEPT !.lagging = lagging,
                        !.needs_summary =
                            IF lagging /\ ~c[k].memory /\ ~c[k].is_system
                            THEN TRUE ELSE c[k].needs_summary]]

\* collect_summary_indexes: the indices of the lagging messages that have a
\* summary, which get_summary_injection concatenates.
collect_summary_indexes(c) ==
    {i \in 0 .. Len(c) - 1 : c[i + 1].lagging /\ c[i + 1].memory}

\* Assignment of the ledger variables from a ledger record.
Store(L, st) ==
    /\ TRUNCATION_INDEX' = L.ti
    /\ CHAT_TOKEN_CORRECTION_FACTOR' = L.cf
    /\ CALIBRATION_STATE' = L.state
    /\ GENERATION_COUNT' = L.gen
    /\ STABLE_COUNT' = L.stable
    /\ RETRAIN_COUNT' = L.retrain
    /\ DELETION_COUNT' = L.del
    /\ chat_metadata' = L.meta
    /\ LAST_PREDICTED' = L.pred
    /\ settings' = [st EXCEPT !.target_context_size = L.target]

ledgerVars ==
    <<TRUNCATION_INDEX, CHAT_TOKEN_CORRECTION_FACTOR, CALIBRATION_STATE,
      GENERATION_COUNT, STABLE_COUNT, RETRAIN_COUNT, DELETION_COUNT,
      chat_metadata, LAST_PREDICTED, settings>>

snapshotVars == <<LAST_CHAT_LENGTH, LAST_CHAT_HASHES>>

ghostVars == <<factorUpdates, history, fed>>

countVars == <<factorUpdates, history>>

queueVars == <<summaryQueue, connection_profile>>

\* Qdrant retrieval: the qdrant_* settings that matter (enabled,
\* retain_recent_messages, qdrant_min_messages, vectorization_delay), the
\* indices of the messages that have a point in the collection,
\* CURRENT_QDRANT_MEMORIES as the set of their lastIndex and whether
\* CURRENT_QDRANT_INJECTION and the extension prompt handed to the host by
\* setExtensionPrompt are non-empty, whether the last retrieval threw
\* (history), and the truncator_intercept_messages call that is suspended in
\* refresh_qdrant_memories, if any, with its generation type.
QdrantOff ==
    [enabled |-> FALSE, retain_recent_messages |-> 1, qdrant_min_messages |-> 2,
     vectorization_delay |-> 1, points |-> {}, memories |-> {},
     injection |-> FALSE, prompt |-> FALSE, failed |-> FALSE, pc |-> "idle",
     type |-> ""]

\* The calibration steps observed (history variable).  With on = "recent":
\* for each of the last STABLE_THRESHOLD calls of calibrate_target_size
\* whether the size was within tolerance.  With on = "run": the number
\* of consecutive calls since one made in WAITING whose size had reached the
\* start threshold and was within tolerance (`good`), the same number when
\* nothing but these calls changed the calibration state and counters in
\* between (`run`), and the state and counters the last call left.
NoSteps ==
    [on |-> "off", recent |-> << >>, good |-> 0, run |-> 0,
     after |-> [state |-> "", gen |-> 0, stable |-> 0, retrain |-> 0]]

\* The results of one search as detect_duplicates receives them, and what it
\* returned for them.
NoSearch ==
    [results |-> << >>, uniqueResults |-> << >>, duplicateIds |-> << >>,
     pc |-> "idle"]

\* The call of calculate_truncation_index that is inside its while loop over
\* batches: its locals, and the number of iterations that ended with
\* "still over target" (history field, counted up to MaxIterations).
NoBatch ==
    [pc |-> "idle", currentIndex |-> 0, nextIndex |-> 0, currentChatSize |-> 0,
     maxIndex |-> 0, nonChat |-> 0, iterations |-> 0]

auxVars == <<qdrant, steps, search, batch>>

\* new SummaryQueue(): queue, active, stopped, abortController (set or
\* null), and the process() calls that are running.  History fields: the
\* index lists given to summarize(), the indices for which generateRaw was
\* called, the indices for which it did not return a result, and for each
\* stop() call that acted the number of generateRaw calls started by then if
\* one was in flight, 0 if none was.
IdleQueue ==
    [queue |-> << >>, active |-> FALSE, stopped |-> FALSE,
     abortController |-> FALSE, loops |-> << >>, enqueued |-> << >>,
     started |-> << >>, failed |-> {}, stops |-> << >>, stale |-> 0]

\* ------------------------------------------------------------- input sets
MaxContext == 20
TargetSizes == {8, 12}
BatchSizes == {1, 2}
MinKeeps == {1, 2}
ContextSizes == {8, MaxContext}
PromptSet == {[total |-> 7, chat |-> 4], [total |-> 16, chat |-> 6]}
GrowthPrompt == [total |-> 12, chat |-> 9]

\* Record of the last handler that ran (history variable, read by the
\* properties only): the handler, whether it is an intercept that directly
\* follows an intercept, and the pass of the eviction decision it made; for
\* handle_message_deleted also the calibration state it started in, the
\* deletions it counted and whether the tolerance check fired.
NoEvent ==
    [op |-> "init", again |-> FALSE, pass |-> NoPass, state0 |-> "WAITING",
     counted |-> 0, exceeded |-> FALSE, retarget |-> NoRetarget,
     type |-> "", ignore |-> << >>, injected |-> {},
     fresh |-> FALSE]

Event(op, pass) ==
    [NoEvent EXCEPT !.op = op, !.pass = pass,
                    !.again = (op = "intercept" /\ last.op = "intercept")]

DeletionEvent(pass, counted, exceeded) ==
    [op |-> "message_deleted", again |-> FALSE, pass |-> pass,
     state0 |-> CALIBRATION_STATE, counted |-> counted, exceeded |-> exceeded,
     retarget |-> NoRetarget, type |-> "", ignore |-> << >>, injected |-> {},
     fresh |-> FALSE]

\* State after the module is loaded, with the settings the user has stored.
InitWithFrom(v, st, q, observed, found) ==
    /\ variant = v
    /\ chat = << >>
    /\ settings = st
    /\ TRUNCATION_INDEX = Null
    /\ CURRENT_CONTEXT_SIZE = 0
    /\ rawPrompt = NoPrompt
    /\ chat_metadata = NoMetadata
    /\ CHAT_TOKEN_CORRECTION_FACTOR = 1000
    /\ LAST_PREDICTED = [total |-> 0, chat |-> 0, nonChat |-> 0]
    /\ CALIBRATION_STATE = "WAITING"
    /\ GENERATION_COUNT = 0
    /\ STABLE_COUNT = 0
    /\ RETRAIN_COUNT = 0
    /\ DELETION_COUNT = 0
    /\ LAST_CHAT_LENGTH = 0
    /\ LAST_CHAT_HASHES = << >>
    /\ statusTimer = FALSE
    /\ factorUpdates = 0
    /\ history = << >>
    /\ fed = << >>
    /\ summaryQueue = IdleQueue
    /\ connection_profile = "main"
    /\ last = NoEvent
    /\ qdrant = q
    /\ steps = observed
    /\ search = found
    /\ batch = NoBatch

InitWith(v, st) == InitWithFrom(v, st, QdrantOff, NoSteps, NoSearch)

\* The settings a specification starts from.  Auto-summarization is off
\* except in the specifications of the summarization queue, which turn it
\* on; the extension is enabled.
SettingsSet(targets, batches, minKeeps, autos) ==
    [target_context_size : targets, batch_size : batches,
     min_messages_to_keep : minKeeps, auto_calibrate_target : autos,
     target_utilization : {80}, calibration_tolerance : {5},
     connection_profile : {""}, enabled : {TRUE}, auto_summarize : {FALSE}]

\* ----------------------------------------------------------- host actions
\* The host edits the text of message index in place (no handler listens).
EditMessage(index, text) ==
    /\ index + 1 \in DOMAIN chat
    /\ chat[index + 1].mes # text
    /\ chat' = [chat EXCEPT ![index + 1].mes = text]
    /\ last' = Event("message_edited", NoPass)
    /\ UNCHANGED <<variant, auxVars, queueVars, CURRENT_CONTEXT_SIZE, rawPrompt, ledgerVars, snapshotVars,
                   statusTimer, ghostVars>>

\* ------------------------------------------------- handlers of src/index.js
\* The correction-factor updates made from the calibration snapshot held in
\* LAST_PREDICTED (history variable): a pass of calculate_truncation_index
\* that stores its predictions starts a new, empty record.
AfterDecision(pass) == IF pass.ran THEN << >> ELSE fed

\* refresh_memory on chat c with raw prompt rp, from ledger L.
\* When the extension is disabled it hands an empty summary block to the
\* host and returns.  The event records the indices of the summaries handed
\* to the host (history).
RefreshMemory(L, c, rp, op) ==
    IF ~settings.enabled
    THEN /\ Store(L, settings)
         /\ chat' = c
         /\ fed' = fed
         /\ last' = Event(op, NoPass)
    ELSE \E L1 \in {InclusionLedger(L, c, settings, CURRENT_CONTEXT_SIZE', rp)} :
            /\ Store(L1, settings)
            /\ chat' = InclusionFlags(c, L1.ti)
            /\ fed' = AfterDecision(L1.pass)
            /\ last' = [Event(op, L1.pass) EXCEPT
                            !.injected = collect_summary_indexes(chat')]

\* A loop from the last message down that never skips the last one.
interceptStartLast(length, type) == length - 1

\* let start = chat.length - 1; if (type === 'continue') start--;
interceptStart(length, type) ==
    IF type = "continue" THEN length - 2 ELSE length - 1

\* The ignore symbol of a message of the array handed to the interceptor:
\* absent, or set to a value.
NoFlag == [set |-> FALSE, value |-> FALSE]
Flag(value) == [set |-> TRUE, value |-> value]

\* The ignore symbols after the loop of truncator_intercept_messages over
\* the array the host hands over for one generation, which carries none.
IgnoreFlags(c, type) ==
    [k \in 1 .. Len(c) |->
        IF k - 1 <= interceptStart(Len(c), type) THEN Flag(c[k].lagging)
        ELSE NoFlag]

\* truncator_intercept_messages from refresh_memory to its end.
\* refresh_memory is called only if the extension is enabled; the loop over
\* the messages runs in both cases.
InterceptRest(contextSize, type) ==
    IF ~settings.enabled
    THEN /\ UNCHANGED <<chat, ledgerVars, fed>>
         /\ last' = [Event("intercept", NoPass) EXCEPT
                         !.type = type, !.ignore = IgnoreFlags(chat, type)]
    ELSE \E L1 \in {InclusionLedger(Ledger, chat, settings, contextSize, rawPrompt)} :
            /\ Store(L1, settings)
            /\ chat' = InclusionFlags(chat, L1.ti)
            /\ fed' = AfterDecision(L1.pass)
            /\ last' = [Event("intercept", L1.pass) EXCEPT
                            !.type = type,
                            !.ignore = IgnoreFlags(chat', type),
                            !.injected = collect_summary_indexes(chat')]

\* The ignore symbols of an array the interceptor has not touched.
Unflagged(c) == [k \in 1 .. Len(c) |-> NoFlag]

\* truncator_intercept_messages for a generation of the given type, with
\* Qdrant retrieval off: it returns at once when the extension is disabled.
InterceptType(contextSize, type) ==
    /\ variant = "adaptive"
    /\ ~qdrant.enabled
    /\ IF settings.enabled
       THEN /\ CURRENT_CONTEXT_SIZE' = contextSize
            /\ InterceptRest(contextSize, type)
       ELSE /\ UNCHANGED <<CURRENT_CONTEXT_SIZE, chat, ledgerVars, fed>>
            /\ last' = [Event("intercept", NoPass) EXCEPT
                            !.type = type, !.ignore = Unflagged(chat)]
    /\ UNCHANGED <<variant, auxVars, queueVars, rawPrompt, snapshotVars, statusTimer, countVars>>

\* A point of the collection written by vectorize_message for message index.
Point(index) == [firstIndex |-> index, lastIndex |-> index]

\* vectorize_message(index) stores a point: the message exists, is not
\* vectorized yet and lies outside the delay window.
Vectorized(index) ==
    /\ variant = "adaptive"
    /\ qdrant.enabled
    /\ index + 1 \in DOMAIN chat
    /\ Point(index) \notin qdrant.points
    /\ ~(index >= Len(chat) - qdrant.vectorization_delay)
    /\ qdrant' = [qdrant EXCEPT !.points = qdrant.points \cup {Point(index)}]
    /\ UNCHANGED <<variant, steps, search, batch, queueVars, chat, CURRENT_CONTEXT_SIZE, rawPrompt,
                   ledgerVars, snapshotVars, statusTimer, ghostVars, last>>

\* retrieve_relevant_memories returns [] before it searches: the chat is
\* empty, shorter than qdrant_min_messages, or the query is empty.
retrievalDeferred(c, q) ==
    \/ Len(c) = 0
    \/ Len(c) < q.qdrant_min_messages
    \/ q.retain_recent_messages <= 0

\* m.lastIndex < oldestRecentIndex, with oldestRecentIndex =
\* chat.length - 1 - retainRecent.
olderThanRecent(m, length, retainRecent) ==
    m.lastIndex < length - 1 - retainRecent

\* The filter of retrieve_relevant_memories over the memories found.
filteredMemories(memories, c, q) ==
    {m \in memories : olderThanRecent(m, Len(c), q.retain_recent_messages)}

\* A failure that leaves the memories of the previous cycle in place.
keepsMemories(q) == q

\* retrieve_relevant_memories returns [] (its early returns and its catch
\* block): refresh_qdrant_memories stores an empty memory set and hands an
\* empty injection to the host.
emptyMemories(q) ==
    [q EXCEPT !.memories = {}, !.injection = FALSE, !.prompt = FALSE]

\* refresh_qdrant_memories once search_memories has returned the memories
\* found, or thrown.
refresh_qdrant_memories(q, found, threw, c) ==
    IF threw THEN [emptyMemories(q) EXCEPT !.failed = TRUE]
    ELSE LET kept == filteredMemories(found, c, q)
         IN [q EXCEPT !.memories = kept, !.injection = (kept # {}),
                      !.prompt = (kept # {}), !.failed = FALSE]

\* truncator_intercept_messages with Qdrant retrieval on, to the await of
\* search_memories, or to its end when the retrieval is deferred.
InterceptBegin(contextSize, type) ==
    /\ variant = "adaptive"
    /\ qdrant.enabled
    /\ qdrant.pc = "idle"
    /\ CURRENT_CONTEXT_SIZE' = contextSize
    /\ IF retrievalDeferred(chat, qdrant)
       THEN /\ qdrant' = [emptyMemories(qdrant) EXCEPT !.failed = FALSE]
            /\ InterceptRest(contextSize, type)
       ELSE /\ qdrant' = [qdrant EXCEPT !.pc = "retrieving", !.type = type,
                                           !.failed = FALSE]
            /\ last' = [Event("intercept_begin", NoPass) EXCEPT !.type = type]
            /\ UNCHANGED <<chat, ledgerVars, fed>>
    /\ UNCHANGED <<variant, steps, search, batch, queueVars, rawPrompt, snapshotVars, statusTimer, countVars>>

\* search_memories returns the memories found, or throws (embedding
\* generation or the search failed): truncator_intercept_messages from there
\* to its end.
InterceptResume(found, threw) ==
    /\ variant = "adaptive"
    /\ qdrant.pc = "retrieving"
    /\ found \subseteq qdrant.points
    /\ threw => found = {}
    /\ CURRENT_CONTEXT_SIZE' = CURRENT_CONTEXT_SIZE
    /\ qdrant' = [refresh_qdrant_memories(qdrant, found, threw, chat)
                     EXCEPT !.pc = "idle"]
    /\ InterceptRest(CURRENT_CONTEXT_SIZE, qdrant.type)
    /\ UNCHANGED <<variant, steps, search, batch, queueVars, rawPrompt, snapshotVars, statusTimer, countVars>>

\* truncator_intercept_messages for a generation that is not a continue.
Intercept(contextSize) == InterceptType(contextSize, "normal")

\* snapshot_chat_state.
snapshot_length(c) == Len(c)
snapshot_hashes(c) == [k \in 1 .. Len(c) |-> compute_message_hash(c[k])]

\* CHAT_CHANGED for the conversation that is already current (first load,
\* reload): snapshot, refresh_memory.
ChatChanged ==
    /\ variant = "adaptive"
    /\ LAST_CHAT_LENGTH' = snapshot_length(chat)
    /\ LAST_CHAT_HASHES' = snapshot_hashes(chat)
    /\ CURRENT_CONTEXT_SIZE' = CURRENT_CONTEXT_SIZE
    /\ RefreshMemory(Ledger, chat, rawPrompt, "chat_changed")
    /\ UNCHANGED <<variant, auxVars, queueVars, rawPrompt, statusTimer, countVars>>

\* A soft recalibration that forces CALIBRATING from every state.
trigger_soft_recalibration_any(L) ==
    [L EXCEPT !.state = "CALIBRATING", !.stable = 0, !.del = 0]

\* trigger_soft_recalibration.
trigger_soft_recalibration(L) ==
    IF L.state = "STABLE" \/ L.state = "CALIBRATING"
    THEN [L EXCEPT !.state = "CALIBRATING", !.stable = 0, !.del = 0]
    ELSE IF L.state = "RETRAINING"
         THEN [L EXCEPT !.del = 0]
         ELSE L

\* LAST_CHAT_HASHES.get(index): 0 stands for undefined.
OldHash(index) ==
    IF index + 1 \in DOMAIN LAST_CHAT_HASHES THEN LAST_CHAT_HASHES[index + 1] ELSE 0

\* DELETION_COUNT >= DELETION_TOLERANCE
ToleranceExceeded(count) == count >= DELETION_TOLERANCE

\* Deletions that handle_message_deleted attributes to the part at or before
\* the truncation index, on the chat c left by the deletion.
deletionsBeforeTruncation(ti, c) ==
    LET currentLength == Len(c)
        deletedCount == LAST_CHAT_LENGTH - currentLength
        oldHash == OldHash(ti)
        newHash == IF ti + 1 \in DOMAIN c THEN compute_message_hash(c[ti + 1]) ELSE 0
    IN IF ti # Null /\ ti > 0
       THEN IF ti >= currentLength THEN deletedCount
            ELSE IF oldHash # 0 /\ newHash # 0 /\ oldHash # newHash
                 THEN deletedCount ELSE 0
       ELSE 0

\* The truncation index as handle_message_deleted adjusts it.
adjustedTruncationIndex(ti, c) ==
    LET currentLength == Len(c)
        deletedCount == LAST_CHAT_LENGTH - currentLength
    IN IF deletionsBeforeTruncation(ti, c) = 0 THEN ti
       ELSE IF ti >= currentLength THEN Max(0, currentLength - 1)
       ELSE Max(0, ti - deletedCount)

\* handle_message_deleted up to and including the check of the tolerance.
DeletionLedger(L, c) ==
    LET L1 == [L EXCEPT !.ti = adjustedTruncationIndex(L.ti, c),
                        !.del = L.del + deletionsBeforeTruncation(L.ti, c)]
    IN IF ToleranceExceeded(L1.del) THEN trigger_soft_recalibration(L1) ELSE L1

\* The chat without the d messages at indices lo .. lo + d - 1.
RemoveRange(c, lo, d) ==
    [k \in 1 .. Len(c) - d |-> IF k <= lo THEN c[k] ELSE c[k + d]]

\* The host deletes d messages from index lo on and emits MESSAGE_DELETED:
\* handle_message_deleted.  The itemized prompt found for the new last index
\* is the one found before, or none.
DeleteMessages(lo, d) ==
    /\ variant = "adaptive"
    /\ d >= 1 /\ lo >= 0 /\ lo + d <= Len(chat)
    /\ DELETION_COUNT + d <= MaxDeletionCount
    /\ rawPrompt' \in {NoPrompt, rawPrompt}
    /\ CURRENT_CONTEXT_SIZE' = CURRENT_CONTEXT_SIZE
    /\ LET c == RemoveRange(chat, lo, d)
           deletedCount == LAST_CHAT_LENGTH - Len(c)
       IN IF deletedCount <= 0
          THEN /\ LAST_CHAT_LENGTH' = Len(c)
               /\ chat' = c
               /\ last' = DeletionEvent(NoPass, 0, FALSE)
               /\ UNCHANGED <<ledgerVars, LAST_CHAT_HASHES, fed>>
          ELSE \E L1 \in {save_truncation_index(DeletionLedger(Ledger, c))} :
               \E L2 \in {InclusionLedger(L1, c, settings, CURRENT_CONTEXT_SIZE, rawPrompt')} :
                  /\ LAST_CHAT_LENGTH' = snapshot_length(c)
                  /\ LAST_CHAT_HASHES' = snapshot_hashes(c)
                  /\ Store(L2, settings)
                  /\ chat' = InclusionFlags(c, L2.ti)
                  /\ fed' = AfterDecision(L2.pass)
                  /\ last' = DeletionEvent(
                                 L2.pass,
                                 deletionsBeforeTruncation(TRUNCATION_INDEX, c),
                                 ToleranceExceeded(
                                     DELETION_COUNT
                                     + deletionsBeforeTruncation(TRUNCATION_INDEX, c)))
    /\ UNCHANGED <<variant, auxVars, queueVars, statusTimer, countVars>>

\* A summary is stored for message index (summarize_message, success path):
\* memory, needs_summary = false, hash of the summarized text, then
\* refresh_memory.
SummaryStored(index) ==
    /\ variant = "adaptive"
    /\ index + 1 \in DOMAIN chat
    /\ ~chat[index + 1].memory
    /\ CURRENT_CONTEXT_SIZE' = CURRENT_CONTEXT_SIZE
    /\ RefreshMemory(Ledger,
                     [chat EXCEPT ![index + 1].memory = TRUE,
                                  ![index + 1].needs_summary = FALSE,
                                  ![index + 1].hash = getStringHash(chat[index + 1].mes)],
                     rawPrompt, "summary_stored")
    /\ UNCHANGED <<variant, auxVars, queueVars, rawPrompt, snapshotVars, statusTimer, countVars>>

\* Target size input (bind_setting): set_settings, refresh_memory.
SetTargetSize(value) ==
    /\ variant = "adaptive"
    /\ value # settings.target_context_size
    /\ CURRENT_CONTEXT_SIZE' = CURRENT_CONTEXT_SIZE
    /\ \E L0 \in {[Ledger EXCEPT !.target = value]} :
           RefreshMemory(L0, chat, rawPrompt, "set_target")
    /\ UNCHANGED <<variant, auxVars, queueVars, rawPrompt, snapshotVars, statusTimer, countVars>>

\* Batch size slider: set_settings, reset_truncation_index, refresh_memory.
SetBatchSize(value) ==
    /\ variant = "adaptive"
    /\ value # settings.batch_size
    /\ CURRENT_CONTEXT_SIZE' = CURRENT_CONTEXT_SIZE
    /\ \E L0 \in {reset_truncation_index(Ledger)} :
       \E L1 \in {InclusionLedger(L0, chat, [settings EXCEPT !.batch_size = value],
                                  CURRENT_CONTEXT_SIZE, rawPrompt)} :
          /\ Store(L1, [settings EXCEPT !.batch_size = value])
          /\ chat' = InclusionFlags(chat, L1.ti)
          /\ fed' = AfterDecision(L1.pass)
          /\ last' = Event("set_batch_size", L1.pass)
    /\ UNCHANGED <<variant, auxVars, queueVars, rawPrompt, snapshotVars, statusTimer, countVars>>

\* Min messages slider (bind_range_setting): set_settings only.
SetMinKeep(value) ==
    /\ value # settings.min_messages_to_keep
    /\ settings' = [settings EXCEPT !.min_messages_to_keep = value]
    /\ last' = Event("set_min_keep", NoPass)
    /\ UNCHANGED <<variant, auxVars, queueVars, chat, TRUNCATION_INDEX, CURRENT_CONTEXT_SIZE, rawPrompt,
                   chat_metadata, CHAT_TOKEN_CORRECTION_FACTOR, LAST_PREDICTED,
                   CALIBRATION_STATE, GENERATION_COUNT, STABLE_COUNT, RETRAIN_COUNT,
                   DELETION_COUNT, snapshotVars, statusTimer, ghostVars>>

\* Enable Extension checkbox (bind_setting): set_settings, refresh_memory.
SetEnabled(value) ==
    /\ variant = "adaptive"
    /\ value # settings.enabled
    /\ CURRENT_CONTEXT_SIZE' = CURRENT_CONTEXT_SIZE
    /\ \E st \in {[settings EXCEPT !.enabled = value]} :
          IF value
          THEN \E L1 \in {InclusionLedger(Ledger, chat, st, CURRENT_CONTEXT_SIZE,
                                         rawPrompt)} :
                  /\ Store(L1, st)
                  /\ chat' = InclusionFlags(chat, L1.ti)
                  /\ fed' = AfterDecision(L1.pass)
                  /\ last' = [Event("set_enabled", L1.pass) EXCEPT
                                  !.injected = collect_summary_indexes(chat')]
          ELSE /\ Store(Ledger, st)
               /\ UNCHANGED <<chat, fed>>
               /\ last' = Event("set_enabled", NoPass)
    /\ UNCHANGED <<variant, auxVars, queueVars, rawPrompt, snapshotVars, statusTimer, countVars>>

\* Reset All button: reset_truncation_index, reset_calibration.
ResetAll ==
    /\ variant = "adaptive"
    /\ Store(reset_calibration(reset_truncation_index(Ledger)), settings)
    /\ last' = Event("reset_all", NoPass)
    /\ UNCHANGED <<variant, auxVars, queueVars, chat, CURRENT_CONTEXT_SIZE, rawPrompt, snapshotVars,
                   statusTimer, ghostVars>>

\* --------------------------------------------------- status and calibration
\* getMaxContextSize() of the host.
getMaxContextSize == MaxContext

\* get_dynamic_tolerance with Qdrant off: the base tolerance (percent).
get_dynamic_tolerance(st) == st.calibration_tolerance

\* |actualSize / maxContext - targetUtilization|, in 1/100 of a percent of
\* maxContext (deviation * 100 * maxContext).
deviationOf(actualSize, st) ==
    Abs(100 * actualSize - st.target_utilization * getMaxContextSize)

\* deviation <= tolerance
WithinTolerance(actualSize, st) ==
    deviationOf(actualSize, st) <= get_dynamic_tolerance(st) * getMaxContextSize

\* deviation > tolerance * 1.5
FarOutOfTolerance(actualSize, st) ==
    2 * deviationOf(actualSize, st) > 3 * get_dynamic_tolerance(st) * getMaxContextSize

\* A threshold of 2% of the current target (the threshold before Fix 3.3).
changeExceedsTwoPercent(finalTarget, currentTarget) ==
    100 * Abs(finalTarget - currentTarget) > 2 * currentTarget

\* changePct > 0.05, with changePct = |finalTarget - currentTarget| / currentTarget.
changeExceedsThreshold(finalTarget, currentTarget) ==
    100 * Abs(finalTarget - currentTarget) > 5 * currentTarget

\* calculate_calibrated_target(maxContext, targetUtilization); the
\* utilization is in percent.
calculate_calibrated_target(L, maxContext, targetUtilization) ==
    LET idealTarget == (maxContext * targetUtilization) \div 100
        rawAdjustedTarget == (idealTarget * 1000) \div L.cf
        currentTarget == L.target
        adjustedTarget == (10 * currentTarget + 7 * (rawAdjustedTarget - currentTarget)) \div 10
        minTarget == (maxContext * 30) \div 100
        maxTarget == (maxContext * 95) \div 100
        finalTarget == Max(minTarget, Min(maxTarget, adjustedTarget))
        L1 == [L EXCEPT !.retarget = [called |-> TRUE, current |-> currentTarget,
                                      final |-> finalTarget]]
    IN IF changeExceedsThreshold(finalTarget, currentTarget)
       THEN reset_truncation_index([L1 EXCEPT !.target = finalTarget])
       ELSE L1

\* calibrate_target_size: one step of the calibration state machine.
\* A start threshold that every realized size has reached.
startReachedAlways(actualSize, startThreshold) == TRUE

\* `if (actualSize < startThreshold)` is false: WAITING is left.
startReached(actualSize, startThreshold) == ~(actualSize < startThreshold)

\* A training phase that lasts one generation more.
trainingDoneLate(count) == count >= TRAINING_GENERATIONS + 1

\* `if (GENERATION_COUNT >= TRAINING_GENERATIONS)`, and the same test on
\* RETRAIN_COUNT.
trainingDone(count) == count >= TRAINING_GENERATIONS

\* A threshold that two in-tolerance generations reach.
stableReachedEarly(count) == count >= 2

\* A threshold one generation above STABLE_THRESHOLD.
stableReachedLate(count) == count >= STABLE_THRESHOLD + 1

\* `if (STABLE_COUNT >= STABLE_THRESHOLD)`.
stableReached(count) == count >= STABLE_THRESHOLD

\* A complete reset of the stable count instead of a decay.
resetAmount(actualSize, st) == STABLE_THRESHOLD

\* `const decayAmount = deviation > tolerance * 1.5 ? 2 : 1`.
decayAmount(actualSize, st) == IF FarOutOfTolerance(actualSize, st) THEN 2 ELSE 1

calibrate_target_size(L, actualSize, st) ==
    LET startThreshold ==
            IF st.auto_calibrate_target
            THEN (getMaxContextSize * st.target_utilization) \div 100
            ELSE L.target
    IN CASE L.state = "WAITING" ->
              IF ~startReached(actualSize, startThreshold) THEN L
              ELSE [L EXCEPT !.state = "INITIAL_TRAINING", !.gen = 0]
         [] L.state = "INITIAL_TRAINING" ->
              IF trainingDone(L.gen + 1)
              THEN calculate_calibrated_target(
                       [L EXCEPT !.state = "CALIBRATING", !.gen = 0],
                       getMaxContextSize, st.target_utilization)
              ELSE [L EXCEPT !.gen = L.gen + 1]
         [] L.state = "CALIBRATING" ->
              IF WithinTolerance(actualSize, st)
              THEN IF stableReached(L.stable + 1)
                   THEN [L EXCEPT !.stable = L.stable + 1, !.state = "STABLE", !.del = 0]
                   ELSE [L EXCEPT !.stable = L.stable + 1]
              ELSE calculate_calibrated_target(
                       [L EXCEPT !.stable = Max(0, L.stable - decayAmount(actualSize, st))],
                       getMaxContextSize, st.target_utilization)
         [] L.state = "RETRAINING" ->
              IF trainingDone(L.retrain + 1)
              THEN calculate_calibrated_target(
                       [L EXCEPT !.state = "CALIBRATING", !.retrain = 0, !.stable = 0],
                       getMaxContextSize, st.target_utilization)
              ELSE [L EXCEPT !.retrain = L.retrain + 1]
         [] L.state = "STABLE" ->
              IF FarOutOfTolerance(actualSize, st)
              THEN [L EXCEPT !.state = "RETRAINING", !.retrain = 0, !.stable = 0]
              ELSE L

\* An update that measures predicted / actual instead of actual / predicted.
updatedCorrectionFactorInverted(cf, actualChatTokens, predictedChat) ==
    LET newCorrectionFactor == (predictedChat * 1000) \div actualChatTokens
        adaptiveAlpha == Min(150 + Abs(newCorrectionFactor - cf) \div 2, 400)
    IN (adaptiveAlpha * newCorrectionFactor + (1000 - adaptiveAlpha) * cf + 500) \div 1000

\* An update with the two weights of the moving average exchanged.
updatedCorrectionFactorSwapped(cf, actualChatTokens, predictedChat) ==
    LET newCorrectionFactor == (actualChatTokens * 1000) \div predictedChat
        adaptiveAlpha == Min(150 + Abs(newCorrectionFactor - cf) \div 2, 400)
    IN ((1000 - adaptiveAlpha) * newCorrectionFactor + adaptiveAlpha * cf + 500) \div 1000

\* The adaptive exponential moving average of the correction factor
\* (thousandths): alpha = min(0.15 + |new - old| * 0.5, 0.4).
updatedCorrectionFactor(cf, actualChatTokens, predictedChat) ==
    LET newCorrectionFactor == (actualChatTokens * 1000) \div predictedChat
        adaptiveAlpha == Min(150 + Abs(newCorrectionFactor - cf) \div 2, 400)
    IN (adaptiveAlpha * newCorrectionFactor + (1000 - adaptiveAlpha) * cf + 500) \div 1000

\* update_status_display, ledger part.
update_status_display(L, rp, st) ==
    IF rp = NoPrompt THEN L
    ELSE LET L1 == IF L.pred.total > 0 /\ L.pred.chat > 0
                   THEN [L EXCEPT !.cf = updatedCorrectionFactor(L.cf, rp.chat, L.pred.chat)]
                   ELSE L
         IN IF st.auto_calibrate_target
            THEN calibrate_target_size(L1, rp.total, st)
            ELSE L1

\* Whether update_status_display gets to the correction-factor update:
\* a raw prompt exists and LAST_PREDICTED_SIZE, LAST_PREDICTED_CHAT_SIZE > 0.
updatesFactor(L, rp) == rp # NoPrompt /\ L.pred.total > 0 /\ L.pred.chat > 0

\* The record of one correction-factor update: the measured ratio
\* actual / predicted (thousandths), the factor before and the factor after.
FactorRecord(L, rp, after) ==
    [ratio |-> (rp.chat * 1000) \div L.pred.chat, before |-> L.cf, after |-> after]

\* The timer set by a rendered message fires: update_status_display.
LastN(seq, n) ==
    IF Len(seq) <= n THEN seq ELSE SubSeq(seq, Len(seq) - n + 1, Len(seq))

Counters(L) ==
    [state |-> L.state, gen |-> L.gen, stable |-> L.stable, retrain |-> L.retrain]

\* The size has reached the start threshold of self-tuning and is within
\* tolerance of the target utilization.
GoodSize(actualSize, st) ==
    /\ startReached(actualSize, (getMaxContextSize * st.target_utilization) \div 100)
    /\ WithinTolerance(actualSize, st)

\* The record of the observed steps after update_status_display has taken the
\* ledger from L0 to L1 on the prompt rp.
Observed(s, L0, L1, rp, st) ==
    IF s.on = "off" \/ rp = NoPrompt \/ ~st.auto_calibrate_target THEN s
    ELSE IF s.on = "recent"
    THEN [s EXCEPT !.recent = LastN(Append(@, WithinTolerance(rp.total, st)),
                                    STABLE_THRESHOLD)]
    ELSE LET good == GoodSize(rp.total, st)
         IN [s EXCEPT
                !.good = IF ~good THEN 0
                         ELSE IF L0.state = "WAITING" THEN 1
                         ELSE IF @ > 0 THEN Min(@ + 1, MaxRun) ELSE 0,
                !.run = IF ~good THEN 0
                        ELSE IF L0.state = "WAITING" THEN 1
                        ELSE IF @ > 0 /\ Counters(L0) = s.after
                             THEN Min(@ + 1, MaxRun) ELSE 0,
                !.after = Counters(L1)]

StatusDisplay ==
    /\ variant = "adaptive"
    /\ statusTimer
    /\ statusTimer' = FALSE
    /\ \E L1 \in {update_status_display(Ledger, rawPrompt, settings)} :
       LET changed == L1.cf # CHAT_TOKEN_CORRECTION_FACTOR
       IN /\ changed => factorUpdates < MaxFactorUpdates
          /\ factorUpdates' = IF changed THEN factorUpdates + 1 ELSE factorUpdates
          /\ fed' = IF updatesFactor(Ledger, rawPrompt) /\ Len(fed) < MaxSnapshotUses
                     THEN Append(fed, FactorRecord(Ledger, rawPrompt, L1.cf))
                     ELSE fed
          /\ Store(L1, settings)
          /\ steps' = Observed(steps, Ledger, L1, rawPrompt, settings)
          /\ last' = [Event("status_display", NoPass) EXCEPT
                          !.retarget = L1.retarget, !.state0 = CALIBRATION_STATE]
    /\ UNCHANGED <<variant, qdrant, search, batch, queueVars, chat, CURRENT_CONTEXT_SIZE, rawPrompt, snapshotVars, history>>

\* update_status_display for a given pair: predictedChat tokens held in the
\* calibration snapshot and a realized prompt with actualChatTokens of chat.
FactorUpdate(predictedChat, actualChatTokens) ==
    /\ variant = "adaptive"
    /\ Len(fed) < MaxFed
    /\ rawPrompt' = [total |-> actualChatTokens, chat |-> actualChatTokens]
    /\ \E L0 \in {[Ledger EXCEPT !.pred = [total |-> predictedChat,
                                             chat |-> predictedChat,
                                             nonChat |-> 0]]} :
       \E L1 \in {update_status_display(L0, rawPrompt', settings)} :
          /\ fed' = Append(fed, FactorRecord(L0, rawPrompt', L1.cf))
          /\ Store(L1, settings)
          /\ last' = Event("status_display", NoPass)
    /\ UNCHANGED <<variant, auxVars, queueVars, chat, CURRENT_CONTEXT_SIZE, snapshotVars, statusTimer,
                   countVars>>

\* Recalibrate button: reset_calibration.
Recalibrate ==
    /\ variant = "adaptive"
    /\ Store(reset_calibration(Ledger), settings)
    /\ last' = Event("recalibrate", NoPass)
    /\ UNCHANGED <<variant, auxVars, queueVars, chat, CURRENT_CONTEXT_SIZE, rawPrompt, snapshotVars,
                   statusTimer, ghostVars>>

\* ------------------------------------------------------------ SummaryQueue
\* let originalProfile = null
NullProfile == "<null>"

\* if (originalProfile): null and the empty string are falsy.
Truthy(profile) == profile # NullProfile /\ profile # ""

\* get_summary_connection_profile: the configured profile, "" for none.
get_summary_connection_profile(st) == st.connection_profile

\* set_connection_profile(name), with current the profile that is active:
\* the profile that is active afterwards.
set_connection_profile(current, name) == IF name = "" THEN current ELSE name

\* History fields of the queue and of a process() call for conversation
\* switches: `stale` counts the items at the head of the queue that were
\* put there before the last switch, and marks the call that took one of
\* them; `foreign` marks a summarize_message call whose message (the local
\* captured from ctx.chat[index] on entry) belongs to a conversation left.
\* A process() call at the head of its while loop.  index is the argument
\* of its summarize_message call, originalProfile the local of that call;
\* history fields: whether stop() was called while its generateRaw call was
\* in flight, whether it switched the profile, and the profile that was
\* active before the switch.
NewLoop ==
    [pc |-> "loop", index |-> Null, originalProfile |-> NullProfile,
     cancelled |-> FALSE, switched |-> FALSE, prior |-> NullProfile,
     stale |-> FALSE, foreign |-> FALSE]

\* The sequence without its element t.
RemoveAt(seq, t) == [k \in 1 .. Len(seq) - 1 |-> IF k < t THEN seq[k] ELSE seq[k + 1]]

\* A summarize() that starts process() whether or not one is running.
processAlways(q) == TRUE

\* if (!this.active)
processIdle(q) == ~q.active

\* A check after generateRaw that never discards the result.
discardsNever(q) == FALSE

\* if (this.stopped) after generateRaw returned.
discardsResult(q) == q.stopped

\* A catch block that records no exception.
recordsNever(outcome, q) == FALSE

\* catch (e): an exception is recorded on the message unless it is an
\* AbortError or the queue is stopped.
recordsFailure(outcome, q) == ~(outcome = "abort" \/ q.stopped)

\* summarize_message from the creation of the AbortController to the await
\* of generateRaw.
start_generation(q, t) ==
    [q EXCEPT !.abortController = TRUE,
              !.started = Append(q.started, q.loops[t].index),
              !.loops[t].pc = "generate"]

\* summarize_message(index) up to its first await.
begin_summarize_message(q, t, index, c, st) ==
    LET q1 == [q EXCEPT !.loops[t] = [NewLoop EXCEPT !.index = index]]
    IN IF index + 1 \notin DOMAIN c \/ q.stopped
       THEN q1
       ELSE IF c[index + 1].is_system
       THEN q1
       ELSE IF get_summary_connection_profile(st) # ""
            THEN [q1 EXCEPT !.loops[t].pc = "profile"]
            ELSE start_generation(q1, t)

\* process() from the head of the while loop to the next await, or to its
\* end.
process_loop(q, t, c, st) ==
    IF Len(q.queue) > 0 /\ ~q.stopped
    THEN [begin_summarize_message([q EXCEPT !.queue = Tail(q.queue),
                                            !.stale = Max(q.stale - 1, 0)],
                                  t, Head(q.queue), c, st)
            EXCEPT !.loops[t].stale = q.stale > 0]
    ELSE [q EXCEPT !.active = FALSE, !.stopped = FALSE,
                   !.loops = RemoveAt(q.loops, t)]

\* summarize(indexes).
summarize(q, indexes, c, st) ==
    LET q1 == [q EXCEPT !.stopped = FALSE, !.queue = q.queue \o indexes,
                        !.enqueued = Append(q.enqueued, indexes)]
    IN IF processIdle(q1)
       THEN process_loop([q1 EXCEPT !.active = TRUE,
                                    !.loops = Append(q1.loops, NewLoop)],
                         Len(q1.loops) + 1, c, st)
       ELSE q1

\* The number of generation calls started so far if one is in flight, 0 if
\* none is.
InFlight(q) ==
    IF \E t \in DOMAIN q.loops : q.loops[t].pc = "generate"
    THEN Len(q.started) ELSE 0

\* A stop() that empties the queue and leaves stopped as it is.
stopWithoutFlag(q) ==
    IF ~q.active THEN q ELSE [q EXCEPT !.queue = << >>, !.stale = 0]

\* stop().
stop(q) ==
    IF ~q.active THEN q
    ELSE [q EXCEPT !.stopped = TRUE, !.queue = << >>, !.stale = 0,
                   !.abortController = FALSE,
                   !.stops = Append(q.stops, InFlight(q)),
                   !.loops = [t \in DOMAIN q.loops |->
                                 IF q.loops[t].pc = "generate"
                                 THEN [q.loops[t] EXCEPT !.cancelled = TRUE]
                                 ELSE q.loops[t]]]

\* The indices of the messages without a summary, in ascending order.
WithoutSummary(c) ==
    SelectSeq([k \in 1 .. Len(c) |-> k - 1], LAMBDA i : ~c[i + 1].memory)

\* A scan that finds no message to summarize.
NeedsSummaryNone(c) == << >>

\* The indices of the messages marked needs_summary, in ascending order.
NeedsSummary(c) ==
    SelectSeq([k \in 1 .. Len(c) |-> k - 1], LAMBDA i : c[i + 1].needs_summary)

\* summaryQueue.summarize(indexes) for a list of indices that is not empty.
Summarize(indexes, op) ==
    /\ variant = "adaptive"
    /\ indexes # << >>
    /\ Len(summaryQueue.enqueued) < MaxSummarizeCalls
    /\ summaryQueue' = summarize(summaryQueue, indexes, chat, settings)
    /\ last' = Event(op, NoPass)

\* Click on Summarize All while the queue is not active.
SummarizeAll ==
    /\ ~summaryQueue.active
    /\ Summarize(WithoutSummary(chat), "summarize_all")
    /\ UNCHANGED <<variant, auxVars, chat, CURRENT_CONTEXT_SIZE, rawPrompt, ledgerVars,
                   snapshotVars, statusTimer, ghostVars, connection_profile>>

\* A message of the chat is rendered again (USER_ or
\* CHARACTER_MESSAGE_RENDERED) with auto_summarize on, its default:
\* auto_summarize_chat, and the status timer is set.
AutoSummarize ==
    /\ settings.auto_summarize
    /\ Summarize(NeedsSummary(chat), "auto_summarize")
    /\ statusTimer' = TRUE
    /\ UNCHANGED <<variant, auxVars, chat, CURRENT_CONTEXT_SIZE, rawPrompt, ledgerVars,
                   snapshotVars, ghostVars, connection_profile>>

\* auto_summarize_chat: summarize() with the indices of the messages marked
\* needs_summary, if auto_summarize is on and there are any.
auto_summarize_chat(q, c, st) ==
    IF st.auto_summarize /\ NeedsSummary(c) # << >>
    THEN summarize(q, NeedsSummary(c), c, st)
    ELSE q

\* The host appends a user message (USER_MESSAGE_RENDERED): the new last
\* index has no itemized prompt; auto_summarize_chat, and the status timer
\* is set.
UserMessage(text) ==
    /\ chat' = Append(chat, NewMessage(text, TRUE))
    /\ rawPrompt' = NoPrompt
    /\ statusTimer' = TRUE
    /\ summaryQueue' = auto_summarize_chat(summaryQueue, chat', settings)
    /\ last' = Event("user_message", NoPass)
    /\ UNCHANGED <<variant, auxVars, connection_profile, CURRENT_CONTEXT_SIZE, ledgerVars, snapshotVars, ghostVars>>

\* A generation completes: the host appends the character message and
\* itemizes the realized prompt under its index (CHARACTER_MESSAGE_RENDERED):
\* auto_summarize_chat, and the status timer is set.
CharacterMessage(text, prompt) ==
    /\ chat' = Append(chat, NewMessage(text, FALSE))
    /\ rawPrompt' = prompt
    /\ statusTimer' = TRUE
    /\ summaryQueue' = auto_summarize_chat(summaryQueue, chat', settings)
    /\ last' = Event("character_message", NoPass)
    /\ UNCHANGED <<variant, auxVars, connection_profile, CURRENT_CONTEXT_SIZE, ledgerVars, snapshotVars, ghostVars>>

\* Click on the button while the queue is active: stop().
Stop ==
    /\ variant = "adaptive"
    /\ summaryQueue.active
    /\ Len(summaryQueue.stops) < MaxStops
    /\ summaryQueue' = stop(summaryQueue)
    /\ last' = Event("stop", NoPass)
    /\ UNCHANGED <<variant, auxVars, chat, CURRENT_CONTEXT_SIZE, rawPrompt, ledgerVars,
                   snapshotVars, statusTimer, ghostVars, connection_profile>>

\* get_current_connection_profile returns to summarize_message.
ProfileRead(t) ==
    /\ variant = "adaptive"
    /\ t \in DOMAIN summaryQueue.loops
    /\ summaryQueue.loops[t].pc = "profile"
    /\ summaryQueue' =
           IF connection_profile # get_summary_connection_profile(settings)
           THEN [summaryQueue EXCEPT !.loops[t].originalProfile = connection_profile,
                                     !.loops[t].pc = "switch"]
           ELSE start_generation(summaryQueue, t)
    /\ last' = Event("profile_read", NoPass)
    /\ UNCHANGED <<variant, auxVars, chat, CURRENT_CONTEXT_SIZE, rawPrompt, ledgerVars,
                   snapshotVars, statusTimer, ghostVars, connection_profile>>

\* set_connection_profile(summaryProfile) returns to summarize_message.
ProfileSwitched(t) ==
    /\ variant = "adaptive"
    /\ t \in DOMAIN summaryQueue.loops
    /\ summaryQueue.loops[t].pc = "switch"
    /\ connection_profile' =
           set_connection_profile(connection_profile,
                                  get_summary_connection_profile(settings))
    /\ summaryQueue' =
           start_generation([summaryQueue EXCEPT !.loops[t].switched = TRUE,
                                                 !.loops[t].prior = connection_profile],
                            t)
    /\ last' = Event("profile_switched", NoPass)
    /\ UNCHANGED <<variant, auxVars, chat, CURRENT_CONTEXT_SIZE, rawPrompt, ledgerVars,
                   snapshotVars, statusTimer, ghostVars>>

GenerationOutcomes == {"result", "empty", "error", "abort"}

\* generateRaw returns a result, returns nothing, throws an error or throws
\* an AbortError: summarize_message from there to the finally block.
GenerationReturns(t, outcome) ==
    /\ variant = "adaptive"
    /\ t \in DOMAIN summaryQueue.loops
    /\ summaryQueue.loops[t].pc = "generate"
    /\ CURRENT_CONTEXT_SIZE' = CURRENT_CONTEXT_SIZE
    /\ LET q == summaryQueue
           index == q.loops[t].index
           threw == outcome \in {"error", "abort"}
           c == IF q.loops[t].foreign
                THEN chat
                ELSE IF ~threw /\ ~discardsResult(q) /\ outcome = "result"
                THEN [chat EXCEPT ![index + 1].memory = TRUE,
                                  ![index + 1].needs_summary = FALSE,
                                  ![index + 1].hash = getStringHash(chat[index + 1].mes)]
                ELSE IF threw /\ recordsFailure(outcome, q)
                     THEN [chat EXCEPT ![index + 1].error = TRUE]
                     ELSE chat
       IN /\ summaryQueue' =
                [q EXCEPT !.abortController = FALSE,
                          !.failed = IF outcome = "result" THEN q.failed
                                     ELSE q.failed \cup {index},
                          !.loops[t].pc = IF Truthy(q.loops[t].originalProfile)
                                          THEN "restore" ELSE "loop"]
          /\ IF ~q.stopped
             THEN RefreshMemory(Ledger, c, rawPrompt,
                                IF outcome = "result" THEN "summary_stored"
                                ELSE "generation_" \o outcome)
             ELSE /\ chat' = c
                  /\ last' = Event("stopped_" \o outcome, NoPass)
                  /\ UNCHANGED <<ledgerVars, fed>>
    /\ UNCHANGED <<variant, auxVars, rawPrompt, snapshotVars, statusTimer, countVars,
                   connection_profile>>

\* set_connection_profile(originalProfile) of the finally block returns.
ProfileRestored(t) ==
    /\ variant = "adaptive"
    /\ t \in DOMAIN summaryQueue.loops
    /\ summaryQueue.loops[t].pc = "restore"
    /\ connection_profile' =
           set_connection_profile(connection_profile,
                                  summaryQueue.loops[t].originalProfile)
    /\ summaryQueue' = [summaryQueue EXCEPT !.loops[t].pc = "loop"]
    /\ last' = Event("profile_restored", NoPass)
    /\ UNCHANGED <<variant, auxVars, chat, CURRENT_CONTEXT_SIZE, rawPrompt, ledgerVars,
                   snapshotVars, statusTimer, ghostVars>>

\* The slash command awaited by get_current_connection_profile or
\* set_connection_profile rejects: the lookup and the switch stand before the
\* try block of summarize_message and the restore in its finally block, so
\* the exception leaves summarize_message and process(), which has no
\* handler: the call ends where it is.
ProfileCallThrows(t) ==
    /\ variant = "adaptive"
    /\ t \in DOMAIN summaryQueue.loops
    /\ summaryQueue.loops[t].pc \in {"profile", "switch", "restore"}
    /\ summaryQueue' = [summaryQueue EXCEPT !.loops = RemoveAt(summaryQueue.loops, t)]
    /\ last' = Event("profile_threw", NoPass)
    /\ UNCHANGED <<variant, auxVars, chat, CURRENT_CONTEXT_SIZE, rawPrompt, ledgerVars,
                   snapshotVars, statusTimer, ghostVars, connection_profile>>

\* summarize_message has returned to process(): the while loop goes on.
ProcessLoop(t) ==
    /\ variant = "adaptive"
    /\ t \in DOMAIN summaryQueue.loops
    /\ summaryQueue.loops[t].pc = "loop"
    /\ summaryQueue' = process_loop(summaryQueue, t, chat, settings)
    /\ last' = Event("process", NoPass)
    /\ UNCHANGED <<variant, auxVars, chat, CURRENT_CONTEXT_SIZE, rawPrompt, ledgerVars,
                   snapshotVars, statusTimer, ghostVars, connection_profile>>

\* ------------------------------------------- handlers of src/unnamed/part_001
\* get_previous_prompt_size: 0 without a raw prompt for the last message.
get_previous_prompt_size(rp) == rp.total

\* should_truncate.
should_truncate(rp, st) == get_previous_prompt_size(rp) > st.target_context_size

\* One batch forward from index ti, clamped at the floor.
batchForward(ti, batchSize, maxTruncateUpTo) == Min(ti + batchSize, maxTruncateUpTo)

\* perform_batch_truncation: the truncation index it leaves.
perform_batch_truncation(ti, c, st, rp) ==
    LET index == OrZero(ti)
        maxTruncateUpTo == Max(Len(c) - st.min_messages_to_keep, 0)
        currentSize == get_previous_prompt_size(rp)
        targetSize == st.target_context_size
    IN IF currentSize > targetSize /\ index < maxTruncateUpTo
       THEN batchForward(index, st.batch_size, maxTruncateUpTo)
       ELSE IF currentSize < targetSize /\ index > 0
            THEN Max(index - st.batch_size, 0)
            ELSE index

\* truncator_intercept_messages of the simple variant.
LegacyIntercept ==
    /\ variant = "simple"
    /\ LET runs == TRUNCATION_INDEX # Null \/ should_truncate(rawPrompt, settings)
           newIndex == IF runs
                       THEN perform_batch_truncation(TRUNCATION_INDEX, chat, settings, rawPrompt)
                       ELSE TRUNCATION_INDEX
       IN /\ TRUNCATION_INDEX' = newIndex
          /\ history' = IF Len(history) < MaxHistory
                        THEN Append(history, [len |-> Len(chat),
                                              size |-> get_previous_prompt_size(rawPrompt),
                                              index |-> newIndex])
                        ELSE history
          /\ last' = Event("intercept",
                           [NoPass EXCEPT !.called = runs, !.ran = runs,
                                          !.start = OrZero(TRUNCATION_INDEX),
                                          !.final = OrZero(newIndex),
                                          !.over = should_truncate(rawPrompt, settings),
                                          !.floor = Max(Len(chat) - settings.min_messages_to_keep, 0)])
    /\ UNCHANGED <<variant, auxVars, queueVars, chat, settings, CURRENT_CONTEXT_SIZE, rawPrompt, chat_metadata,
                   CHAT_TOKEN_CORRECTION_FACTOR, LAST_PREDICTED, CALIBRATION_STATE,
                   GENERATION_COUNT, STABLE_COUNT, RETRAIN_COUNT, DELETION_COUNT,
                   snapshotVars, statusTimer, factorUpdates, fed>>

\* CHAT_CHANGED and the reset button of the simple variant:
\* reset_truncation_index.
LegacyReset ==
    /\ variant = "simple"
    /\ TRUNCATION_INDEX # Null
    /\ TRUNCATION_INDEX' = Null
    /\ history' = << >>
    /\ last' = Event("reset", NoPass)
    /\ UNCHANGED <<variant, auxVars, queueVars, chat, settings, CURRENT_CONTEXT_SIZE, rawPrompt, chat_metadata,
                   CHAT_TOKEN_CORRECTION_FACTOR, LAST_PREDICTED, CALIBRATION_STATE,
                   GENERATION_COUNT, STABLE_COUNT, RETRAIN_COUNT, DELETION_COUNT,
                   snapshotVars, statusTimer, factorUpdates, fed>>

\* The host deletes d messages from index lo on; MESSAGE_DELETED of the
\* simple variant: reset_truncation_index.
LegacyDeleteMessages(lo, d) ==
    /\ variant = "simple"
    /\ d >= 1 /\ lo >= 0 /\ lo + d <= Len(chat)
    /\ chat' = RemoveRange(chat, lo, d)
    /\ rawPrompt' \in {NoPrompt, rawPrompt}
    /\ TRUNCATION_INDEX' = Null
    /\ history' = << >>
    /\ last' = Event("message_deleted", NoPass)
    /\ UNCHANGED <<variant, auxVars, queueVars, settings, CURRENT_CONTEXT_SIZE, chat_metadata,
                   CHAT_TOKEN_CORRECTION_FACTOR, LAST_PREDICTED, CALIBRATION_STATE,
                   GENERATION_COUNT, STABLE_COUNT, RETRAIN_COUNT, DELETION_COUNT,
                   snapshotVars, statusTimer, factorUpdates, fed>>

\* A generation of type "continue" or a swipe completes: the host itemizes
\* a new realized prompt under the index of the last message.
ContinueGeneration(prompt) ==
    /\ Len(chat) > 0
    /\ ~chat[Len(chat)].is_user
    /\ rawPrompt' = prompt
    /\ statusTimer' = TRUE
    /\ last' = Event("character_message", NoPass)
    /\ UNCHANGED <<variant, auxVars, queueVars, chat, CURRENT_CONTEXT_SIZE, ledgerVars, snapshotVars, ghostVars>>

\* --------------------------------------------------------- specifications
\* The eviction decision, in both variants, on a growing chat.
Init ==
    \E v \in {"adaptive", "simple"} :
        \E st \in SettingsSet({8}, BatchSizes, MinKeeps, {FALSE}) :
            InitWith(v, st)

Next ==
    \/ Len(chat) < MaxLen /\ UserMessage(1)
    \/ Len(chat) < MaxLen
       /\ \E text \in Texts : CharacterMessage(text, GrowthPrompt)
    \/ \E contextSize \in ContextSizes : Intercept(contextSize)
    \/ \E index \in 0 .. MaxLen - 1 : SummaryStored(index)
    \/ ResetAll
    \/ LegacyIntercept
    \/ LegacyReset

Spec == Init /\ [][Next]_vars

\* The change resilience monitor of src/index.js on deletions.
InitDeletion ==
    \E st \in SettingsSet({8}, {1}, {1}, {FALSE}) : InitWith("adaptive", st)

NextDeletion ==
    \/ Len(chat) < MaxLen
       /\ \E text \in Texts : CharacterMessage(text, GrowthPrompt)
    \/ Intercept(MaxContext)
    \/ ChatChanged
    \/ \E lo \in 0 .. MaxLen - 1 : \E d \in 1 .. 2 : DeleteMessages(lo, d)

SpecDeletion == InitDeletion /\ [][NextDeletion]_vars

\* In-place edits and stored summaries under src/index.js.
InitEdits ==
    \E st \in SettingsSet({8}, {1}, {1}, {FALSE}) : InitWith("adaptive", st)

NextEdits ==
    \/ Len(chat) < MaxEditedLen /\ CharacterMessage(1, GrowthPrompt)
    \/ Intercept(MaxContext)
    \/ ChatChanged
    \/ \E index \in 0 .. MaxEditedLen - 1 : \E text \in Texts : EditMessage(index, text)
    \/ \E index \in 0 .. MaxEditedLen - 1 : SummaryStored(index)

SpecEdits == InitEdits /\ [][NextEdits]_vars

\* A conversation stored by an earlier session: three character messages,
\* the first one below the cutoff, and the ledger that save_truncation_index
\* wrote for it in some calibration state.
StoredChat ==
    << [NewMessage(2, FALSE) EXCEPT !.lagging = TRUE, !.needs_summary = TRUE],
       NewMessage(2, FALSE), NewMessage(2, FALSE) >>

StoredCounters ==
    { [state |-> "WAITING", gen |-> 0, stable |-> 0, retrain |-> 0],
      [state |-> "INITIAL_TRAINING", gen |-> 1, stable |-> 0, retrain |-> 0],
      [state |-> "CALIBRATING", gen |-> 0, stable |-> 2, retrain |-> 0],
      [state |-> "STABLE", gen |-> 0, stable |-> STABLE_THRESHOLD, retrain |-> 0],
      [state |-> "RETRAINING", gen |-> 0, stable |-> 0, retrain |-> 1] }

StoredMetadata(st) ==
    { [saved |-> TRUE, truncation_index |-> 1,
       target_size |-> st.target_context_size, correction_factor |-> 1000,
       calibration_state |-> k.state, generation_count |-> k.gen,
       stable_count |-> k.stable, retrain_count |-> k.retrain,
       deletion_count |-> n] : k \in StoredCounters, n \in {0, 2} }

\* The calibration state machine and the deletion tolerance, with
\* self-tuning on, on the stored conversation.
InitLedgerFrom(st, meta, observed) ==
    /\ variant = "adaptive"
    /\ chat = StoredChat
    /\ settings = st
    /\ TRUNCATION_INDEX = Null
    /\ CURRENT_CONTEXT_SIZE = 0
    /\ rawPrompt = NoPrompt
    /\ chat_metadata = meta
    /\ CHAT_TOKEN_CORRECTION_FACTOR = 1000
    /\ LAST_PREDICTED = [total |-> 0, chat |-> 0, nonChat |-> 0]
    /\ CALIBRATION_STATE = "WAITING"
    /\ GENERATION_COUNT = 0
    /\ STABLE_COUNT = 0
    /\ RETRAIN_COUNT = 0
    /\ DELETION_COUNT = 0
    /\ LAST_CHAT_LENGTH = 0
    /\ LAST_CHAT_HASHES = << >>
    /\ statusTimer = FALSE
    /\ factorUpdates = 0
    /\ history = << >>
    /\ fed = << >>
    /\ summaryQueue = IdleQueue
    /\ connection_profile = "main"
    /\ qdrant = QdrantOff
    /\ steps = observed
    /\ search = NoSearch
    /\ batch = NoBatch
    /\ last = NoEvent

InitCalibration ==
    \E st \in SettingsSet({16}, {1}, {1}, {TRUE}) :
        \E meta \in StoredMetadata(st) : InitLedgerFrom(st, meta, NoSteps)

NextCalibration ==
    \/ \E prompt \in PromptSet : ContinueGeneration(prompt)
    \/ StatusDisplay
    \/ Intercept(MaxContext)
    \/ ChatChanged
    \/ \E lo \in 0 .. MaxLen - 1 : \E d \in 1 .. MaxLen : DeleteMessages(lo, d)

SpecCalibration == InitCalibration /\ [][NextCalibration]_vars

\* calculate_calibrated_target on its own, for host context sizes and stored
\* targets large enough that a change of the target can fall on either side
\* of the 5% threshold.
RetargetContexts == {100, 200}
RetargetTargets == {70, 80, 84, 100, 160}
RetargetFactors == {800, 950, 1000, 1050, 1250}

CalibratedTarget(maxContext) ==
    /\ variant = "adaptive"
    /\ \E L1 \in {calculate_calibrated_target(Ledger, maxContext,
                                              settings.target_utilization)} :
          /\ Store(L1, settings)
          /\ last' = [Event("calibrated_target", NoPass) EXCEPT !.retarget = L1.retarget]
    /\ UNCHANGED <<variant, auxVars, queueVars, chat, CURRENT_CONTEXT_SIZE, rawPrompt, snapshotVars,
                   statusTimer, ghostVars>>

InitRetarget ==
    \E st \in SettingsSet(RetargetTargets, {1}, {1}, {TRUE}) :
        \E cf \in RetargetFactors : \E ti \in {Null, 0, 1} :
            /\ variant = "adaptive"
            /\ chat = StoredChat
            /\ settings = st
            /\ TRUNCATION_INDEX = ti
            /\ CURRENT_CONTEXT_SIZE = 0
            /\ rawPrompt = NoPrompt
            /\ chat_metadata = NoMetadata
            /\ CHAT_TOKEN_CORRECTION_FACTOR = cf
            /\ LAST_PREDICTED = [total |-> 0, chat |-> 0, nonChat |-> 0]
            /\ CALIBRATION_STATE = "CALIBRATING"
            /\ GENERATION_COUNT = 0
            /\ STABLE_COUNT = 0
            /\ RETRAIN_COUNT = 0
            /\ DELETION_COUNT = 0
            /\ LAST_CHAT_LENGTH = 0
            /\ LAST_CHAT_HASHES = << >>
            /\ statusTimer = FALSE
            /\ factorUpdates = 0
            /\ history = << >>
            /\ fed = << >>
            /\ summaryQueue = IdleQueue
            /\ connection_profile = "main"
            /\ qdrant = QdrantOff
            /\ steps = NoSteps
            /\ search = NoSearch
            /\ batch = NoBatch
            /\ last = NoEvent

NextRetarget == \E maxContext \in RetargetContexts : CalibratedTarget(maxContext)

SpecRetarget == InitRetarget /\ [][NextRetarget]_vars

\* A conversation c with cutoff ti, correction factor cf and stored ledger
\* meta, and the connection profile of the host.
InitStoredFrom(c, st, ti, cf, meta, profile, q, observed) ==
    /\ variant = "adaptive"
    /\ chat = c
    /\ settings = st
    /\ TRUNCATION_INDEX = ti
    /\ CURRENT_CONTEXT_SIZE = 0
    /\ rawPrompt = NoPrompt
    /\ chat_metadata = meta
    /\ CHAT_TOKEN_CORRECTION_FACTOR = cf
    /\ LAST_PREDICTED = [total |-> 0, chat |-> 0, nonChat |-> 0]
    /\ CALIBRATION_STATE = "WAITING"
    /\ GENERATION_COUNT = 0
    /\ STABLE_COUNT = 0
    /\ RETRAIN_COUNT = 0
    /\ DELETION_COUNT = 0
    /\ LAST_CHAT_LENGTH = 0
    /\ LAST_CHAT_HASHES = << >>
    /\ statusTimer = FALSE
    /\ factorUpdates = 0
    /\ history = << >>
    /\ fed = << >>
    /\ summaryQueue = IdleQueue
    /\ connection_profile = profile
    /\ last = NoEvent
    /\ qdrant = q
    /\ steps = observed
    /\ search = NoSearch
    /\ batch = NoBatch

InitStored(c, st, ti, cf, meta, profile) == InitStoredFrom(c, st, ti, cf, meta, profile, QdrantOff, NoSteps)

\* A stored conversation with cutoff ti and correction factor cf, before its
\* first checkpoint.
InitFrom(st, ti, cf) == InitStored(StoredChat, st, ti, cf, NoMetadata, "main")

\* The correction-factor update fed pairs with a constant ratio
\* actual = k * predicted.
ConvergenceStarts == {500, 1000, 2000}
ConvergenceRatios == {250, 830, 1000, 1500, 3000}
PredictedSizes == {100, 200}

InitConvergence ==
    \E st \in SettingsSet({8}, {1}, {1}, {FALSE}) :
        \E cf \in ConvergenceStarts : InitFrom(st, Null, cf)

NextConvergence ==
    \E k \in ConvergenceRatios : \E predicted \in PredictedSizes :
        /\ IF fed = << >> THEN TRUE ELSE fed[1].ratio = k
        /\ FactorUpdate(predicted, (k * predicted) \div 1000)

SpecConvergence == InitConvergence /\ [][NextConvergence]_vars

\* The correction-factor update from factor 1.0 over three generations with
\* measured ratios of any size.
MeasuredRatios == {250, 830, 850, 900, 1500, 3000}

InitFactorScenario ==
    \E st \in SettingsSet({8}, {1}, {1}, {FALSE}) : InitWith("adaptive", st)

NextFactorScenario ==
    \E ratio \in MeasuredRatios :
        /\ Len(fed) < MaxScenarioFed
        /\ FactorUpdate(100, ratio \div 10)

SpecFactorScenario == InitFactorScenario /\ [][NextFactorScenario]_vars

\* Calibration snapshots over generations: intercept, the rendered messages
\* with their status updates, and summaries stored in the background.
\* Realized prompts of a generation: 3 tokens outside the chat and two or
\* three messages of 3 tokens.  A character message is rendered only for a
\* generation, which the host starts with an intercept.
SnapshotPrompts == {[total |-> 9, chat |-> 6], [total |-> 12, chat |-> 9]}

InitSnapshot ==
    \E st \in SettingsSet({8}, {1}, {1}, {FALSE}) : InitWith("adaptive", st)

NextSnapshot ==
    \/ Len(chat) < MaxLen /\ UserMessage(2)
    \/ /\ Len(chat) < MaxLen
       /\ last.op = "intercept"
       /\ \E prompt \in SnapshotPrompts : CharacterMessage(2, prompt)
    \/ Intercept(MaxContext)
    \/ StatusDisplay
    \/ \E index \in 0 .. MaxLen - 1 : SummaryStored(index)

SpecSnapshot == InitSnapshot /\ [][NextSnapshot]_vars

\* Generations of both kinds on a growing chat: the host appends the reply
\* of a normal generation and extends the last message on a continue.
GenerationTypes == {"normal", "continue"}

InitGeneration ==
    \E st \in SettingsSet({8}, BatchSizes, {1}, {FALSE}) : InitWith("adaptive", st)

NextGeneration ==
    \/ Len(chat) < MaxLen /\ UserMessage(2)
    \/ /\ Len(chat) < MaxLen
       /\ last.op = "intercept" /\ last.type = "normal"
       /\ \E prompt \in SnapshotPrompts : CharacterMessage(2, prompt)
    \/ \E type \in GenerationTypes : InterceptType(MaxContext, type)
    \/ StatusDisplay

SpecGeneration == InitGeneration /\ [][NextGeneration]_vars

\* The calibration state machine with a tolerance of 10 %, so that realized
\* sizes are below the start threshold and far out of tolerance (7), out of
\* tolerance by less than 1.5 times (13, 19) or within tolerance (16), with
\* the calls of calibrate_target_size observed; deletions, CHAT_CHANGED and
\* the Reset All button change the state between them.
StepPrompts ==
    {[total |-> 7, chat |-> 4], [total |-> 13, chat |-> 6],
     [total |-> 16, chat |-> 6], [total |-> 19, chat |-> 6]}

InitStepsFrom(observed) ==
    \E st \in SettingsSet({16}, {1}, {1}, {TRUE}) :
        \E meta \in StoredMetadata(st) :
            InitLedgerFrom([st EXCEPT !.calibration_tolerance = 10], meta, observed)

InitStateMachine == InitStepsFrom(NoSteps)

NextStateMachine ==
    \/ \E prompt \in StepPrompts : ContinueGeneration(prompt)
    \/ StatusDisplay
    \/ ChatChanged
    \/ \E d \in 1 .. MaxLen : DeleteMessages(0, d)
    \/ ResetAll

SpecStateMachine == InitStateMachine /\ [][NextStateMachine]_vars

\* The steps alone, from WAITING, with the last STABLE_THRESHOLD of them
\* observed.
InitStable == InitStepsFrom([NoSteps EXCEPT !.on = "recent"])

NextStable ==
    \/ \E prompt \in StepPrompts : ContinueGeneration(prompt)
    \/ StatusDisplay

SpecStable == InitStable /\ [][NextStable]_vars

\* Generations whose size is far below the threshold (7) or at the target
\* (16), with the runs of good sizes counted, and CHAT_CHANGED events and
\* deletions between them.  The
\* callback that setTimeout schedules runs eventually (weak fairness); when
\* the next reply is rendered is up to the user and the host.
SteadyPrompts == {[total |-> 7, chat |-> 4], [total |-> 16, chat |-> 6]}

InitSteady == InitStepsFrom([NoSteps EXCEPT !.on = "run"])

NextSteady ==
    \/ \E prompt \in SteadyPrompts : ContinueGeneration(prompt)
    \/ StatusDisplay
    \/ ChatChanged
    \/ \E d \in 1 .. MaxLen : DeleteMessages(0, d)

SpecSteady == InitSteady /\ [][NextSteady]_vars /\ WF_vars(StatusDisplay)

\* The Reset All button on a stored conversation with auto-calibration on:
\* generations, status updates, intercepts, and CHAT_CHANGED events, which
\* reload the ledger from chat_metadata when the cutoff is unset.
InitReset == InitCalibration

NextReset ==
    \/ \E prompt \in PromptSet : ContinueGeneration(prompt)
    \/ StatusDisplay
    \/ Intercept(MaxContext)
    \/ ChatChanged
    \/ ResetAll

SpecReset == InitReset /\ [][NextReset]_vars

\* detect_duplicates.  A result is its point id, payload.message_hash (NoHash
\* when the payload has none) and payload.timestamp.
NoHash == 0
MaxResults == 4
MaxHash == 2
MaxTimestamp == 3

Result(id, hash, timestamp) == [id |-> id, hash |-> hash, timestamp |-> timestamp]
NoResult == Result(0, NoHash, 0)

IndexOf(seq, x) ==
    IF \E k \in DOMAIN seq : seq[k] = x
    THEN CHOOSE k \in DOMAIN seq : seq[k] = x /\ \A j \in 1 .. k - 1 : seq[j] # x
    ELSE 0

\* A comparison under which the copy seen last is always the one kept.
neverNewer(timestamp, existing) == FALSE

\* `if (timestamp > existing.timestamp)`: the current result is the duplicate.
currentIsNewer(timestamp, existing) == timestamp > existing

\* One iteration of the loop of detect_duplicates.
detectStep(acc, result) ==
    IF result.hash = NoHash
    THEN [acc EXCEPT !.uniqueResults = Append(@, result)]
    ELSE LET existing == acc.seenHashes[result.hash]
         IN IF existing # NoResult
            THEN IF currentIsNewer(result.timestamp, existing.timestamp)
                 THEN [acc EXCEPT !.duplicateIds = Append(@, result.id)]
                 ELSE LET idx == IndexOf(acc.uniqueResults, existing)
                      IN [acc EXCEPT
                             !.duplicateIds = Append(@, existing.id),
                             !.uniqueResults =
                                 IF idx >= 1 THEN [@ EXCEPT ![idx] = result] ELSE @,
                             !.seenHashes[result.hash] = result]
            ELSE [acc EXCEPT !.seenHashes[result.hash] = result,
                             !.uniqueResults = Append(@, result)]

RECURSIVE detectFrom(_, _)
detectFrom(acc, results) ==
    IF results = << >> THEN acc
    ELSE detectFrom(detectStep(acc, Head(results)), Tail(results))

detect_duplicates(results) ==
    LET acc == detectFrom([seenHashes |-> [h \in 1 .. MaxHash |-> NoResult],
                           uniqueResults |-> << >>, duplicateIds |-> << >>],
                          results)
    IN [uniqueResults |-> acc.uniqueResults, duplicateIds |-> acc.duplicateIds]

\* search_memories hands the results of the search to detect_duplicates.
DetectDuplicates ==
    /\ search.pc = "found"
    /\ \E out \in {detect_duplicates(search.results)} :
          search' = [search EXCEPT !.uniqueResults = out.uniqueResults,
                                   !.duplicateIds = out.duplicateIds,
                                   !.pc = "deduped"]
    /\ UNCHANGED <<variant, qdrant, steps, batch, queueVars, chat, CURRENT_CONTEXT_SIZE,
                   rawPrompt, ledgerVars, snapshotVars, statusTimer, ghostVars, last>>

\* A result with or without a hash.
Payloads == (0 .. MaxHash) \X (1 .. MaxTimestamp)

\* Every list of up to MaxResults results, with distinct ids.
InitDedupe ==
    \E st \in SettingsSet({8}, {1}, {1}, {FALSE}) :
    \E n \in 0 .. MaxResults :
    \E list \in [1 .. n -> Payloads] :
        InitWithFrom("adaptive", st, [QdrantOff EXCEPT !.enabled = TRUE], NoSteps,
                     [NoSearch EXCEPT
                         !.results = [k \in 1 .. n |->
                                         Result(k, list[k][1], list[k][2])],
                         !.pc = "found"])

NextDedupe == DetectDuplicates

SpecDedupe == InitDedupe /\ [][NextDedupe]_vars

\* Qdrant retrieval on, on a growing chat: messages are vectorized outside
\* the delay window, and every intercept waits for the search.  The injected
\* tokens are not charged to the target (account_qdrant_tokens off).
QdrantOn ==
    [QdrantOff EXCEPT !.enabled = TRUE, !.retain_recent_messages = 1,
                      !.qdrant_min_messages = 2, !.vectorization_delay = 1]

QdrantMinKeeps == {2, 3}

InitQdrant ==
    \E st \in SettingsSet({8}, {1}, QdrantMinKeeps, {FALSE}) :
        InitWithFrom("adaptive", st, QdrantOn, NoSteps, NoSearch)

NextQdrant ==
    \/ Len(chat) < MaxLen /\ qdrant.pc = "idle" /\ UserMessage(2)
    \/ /\ Len(chat) < MaxLen
       /\ last.op = "intercept" /\ last.type = "normal"
       /\ \E prompt \in SnapshotPrompts : CharacterMessage(2, prompt)
    \/ /\ last.op = "intercept" /\ last.type = "continue"
       /\ \E prompt \in SnapshotPrompts : ContinueGeneration(prompt)
    \/ \E type \in GenerationTypes :
          /\ type = "continue" => (Len(chat) > 0 /\ ~chat[Len(chat)].is_user)
          /\ InterceptBegin(MaxContext, type)
    \/ \E found \in SUBSET qdrant.points : \E threw \in BOOLEAN :
          InterceptResume(found, threw)
    \/ \E index \in 0 .. MaxLen - 1 : Vectorized(index)
    \/ StatusDisplay

SpecQdrant == InitQdrant /\ [][NextQdrant]_vars

\* The summarization queue on a conversation of five messages, the first
\* four below the cutoff and without a summary.
QueueLength == 5
QueueCutoff == 4

QueueChat(length, cutoff) ==
    [k \in 1 .. length |->
        IF k <= cutoff
        THEN [NewMessage(2, FALSE) EXCEPT !.lagging = TRUE, !.needs_summary = TRUE]
        ELSE NewMessage(2, FALSE)]

QueueMetadata(st, cutoff) ==
    [NoMetadata EXCEPT !.saved = TRUE, !.truncation_index = cutoff,
                       !.target_size = st.target_context_size,
                       !.correction_factor = 1000]

\* What /profile reports: nothing (no profile is selected), the profile of
\* the conversation, the profile configured for summaries.
Profiles == {"", "main", "summary"}

\* The queue on conversation c with the given cutoff, for the given
\* configured summary profiles and active profiles of the host.
InitQueueWith(c, cutoff, summaryProfiles, profiles) ==
    \E st \in SettingsSet({8}, {1}, {1}, {FALSE}) :
        \E summaryProfile \in summaryProfiles : \E profile \in profiles :
            InitStored(c, [st EXCEPT !.connection_profile = summaryProfile,
                                     !.auto_summarize = TRUE],
                       cutoff, 1000, QueueMetadata(st, cutoff), profile)

InitQueue == InitQueueWith(QueueChat(QueueLength, QueueCutoff), QueueCutoff, {""}, {"main"})

NextQueue ==
    \/ SummarizeAll
    \/ AutoSummarize
    \/ StatusDisplay
    \/ Stop
    \/ \E t \in 1 .. MaxLoops : \E outcome \in GenerationOutcomes :
           GenerationReturns(t, outcome)
    \/ \E t \in 1 .. MaxLoops : ProcessLoop(t)

SpecQueue == InitQueue /\ [][NextQueue]_vars

\* The queue with a summary profile configured or not, on a conversation of
\* three messages, for every profile the host can report.
ProfileLength == 3
ProfileCutoff == 2

InitProfile ==
    InitQueueWith(QueueChat(ProfileLength, ProfileCutoff), ProfileCutoff,
                  {"", "summary"}, Profiles)

NextProfile ==
    \/ SummarizeAll
    \/ AutoSummarize
    \/ StatusDisplay
    \/ Stop
    \/ \E t \in 1 .. MaxLoops : \E outcome \in GenerationOutcomes :
           GenerationReturns(t, outcome)
    \/ \E t \in 1 .. MaxLoops : ProcessLoop(t)
    \/ \E t \in 1 .. MaxLoops : ProfileRead(t)
    \/ \E t \in 1 .. MaxLoops : ProfileSwitched(t)
    \/ \E t \in 1 .. MaxLoops : ProfileRestored(t)

SpecProfile == InitProfile /\ [][NextProfile]_vars

\* The example scenario of the simple variant's README: target 8000,
\* batch 20, min keep 10, a chat of 100 messages.
ScenarioLength == 100
ScenarioPrompts == {[total |-> size, chat |-> 0] : size \in {7500, 7800, 8200, 8500}}

InitScenario ==
    InitWith("simple",
             [target_context_size |-> 8000, batch_size |-> 20,
              min_messages_to_keep |-> 10, auto_calibrate_target |-> FALSE,
              target_utilization |-> 80, calibration_tolerance |-> 5,
              connection_profile |-> "", enabled |-> TRUE,
              auto_summarize |-> FALSE])

NextScenario ==
    \/ Len(chat) < ScenarioLength /\ CharacterMessage(1, NoPrompt)
    \/ Len(chat) = ScenarioLength /\ \E prompt \in ScenarioPrompts : ContinueGeneration(prompt)
    \/ Len(chat) = ScenarioLength /\ LegacyIntercept
    \/ LegacyReset
    \/ LegacyDeleteMessages(ScenarioLength - 1, 1)

SpecScenario == InitScenario /\ [][NextScenario]_vars

\* ------------------------------------------------------------------ claims
\* The floor of the cutoff index: max(len(messages) - min_messages_to_keep, 0).
Floor == Max(Len(chat) - settings.min_messages_to_keep, 0)

\* C1: in every reachable state the cutoff index, when set, satisfies
\* 0 <= cutoff_index <= max(len(messages) - min_messages_to_keep, 0), and
\* none of the most recent min_messages_to_keep messages is flagged excluded.
C1_SafetyFloor ==
    /\ TRUNCATION_INDEX # Null =>
           0 <= TRUNCATION_INDEX /\ TRUNCATION_INDEX <= Floor
    /\ \A k \in 1 .. Len(chat) :
           k > Len(chat) - settings.min_messages_to_keep => ~chat[k].lagging

\* C7: a deletion of messages only at indices strictly greater than the
\* cutoff index leaves the cutoff index and the deletion count unchanged,
\* whatever was appended since the last snapshot.
C7_TailDeletionFrame ==
    [][\A lo \in 0 .. MaxLen - 1 : \A d \in 1 .. 2 :
           (/\ TRUNCATION_INDEX # Null
            /\ TRUNCATION_INDEX > 0
            /\ lo > TRUNCATION_INDEX
            /\ DeleteMessages(lo, d))
           => /\ TRUNCATION_INDEX' = TRUNCATION_INDEX
              /\ DELETION_COUNT' = DELETION_COUNT]_vars

\* C8: a deletion of d >= 1 messages at indices at or before the cutoff
\* index (cutoff > d, so that the result stays positive) decrements the
\* cutoff index by exactly d and increments the deletion count, whatever was
\* appended between the last snapshot and the deletion.
C8_DeletionBeforeCutoff ==
    [][\A lo \in 0 .. MaxLen - 1 : \A d \in 1 .. 2 :
           (/\ TRUNCATION_INDEX # Null
            /\ d < TRUNCATION_INDEX
            /\ lo + d - 1 <= TRUNCATION_INDEX
            /\ DeleteMessages(lo, d))
           => /\ TRUNCATION_INDEX' = TRUNCATION_INDEX - d
              /\ DELETION_COUNT' > DELETION_COUNT]_vars

\* The estimated total for the current cutoff under a reported context size.
EstimateAtCutoff(contextSize) ==
    estimateChatSize(chat, OrZero(TRUNCATION_INDEX), CHAT_TOKEN_CORRECTION_FACTOR)
    + nonChatBudgetOf(rawPrompt, contextSize)

\* C2: every intercept in which the estimated total for the current cutoff
\* exceeds the target and the cutoff is below len - min_messages_to_keep
\* advances the cutoff index, whether the cutoff was unset, 0 or positive.
C2_OverTargetAdvances ==
    [][\A contextSize \in ContextSizes :
           (/\ EstimateAtCutoff(contextSize) > settings.target_context_size
            /\ OrZero(TRUNCATION_INDEX) < Len(chat) - settings.min_messages_to_keep
            /\ Intercept(contextSize))
           => /\ TRUNCATION_INDEX' # Null
              /\ TRUNCATION_INDEX' > OrZero(TRUNCATION_INDEX)]_vars

\* C6: with target 8000, batch 20, min keep 10 and 100 messages, starting
\* with no cutoff, generations with realized sizes 8500, 8200 and 7800 leave
\* the cutoff at 20, then 40, then unchanged at 40.
C6_ExampleScenario ==
    (/\ Len(history) >= 3
     /\ \A i \in 1 .. 3 : history[i].len = ScenarioLength
     /\ history[1].size = 8500
     /\ history[2].size = 8200
     /\ history[3].size = 7800)
    => /\ history[1].index = 20
       /\ history[2].index = 40
       /\ history[3].index = 40

\* C10: when a message with a cached summary has been edited in place since
\* the summary was made (its hash differs from the hash stored with the
\* summary and from the hash in the last snapshot), the next intercept leaves
\* it marked needs_summary.
C10_EditMarksSummaryStale ==
    [][\A index \in 0 .. MaxEditedLen - 1 :
           (/\ index + 1 \in DOMAIN chat
            /\ chat[index + 1].memory
            /\ chat[index + 1].hash # compute_message_hash(chat[index + 1])
            /\ OldHash(index) # 0
            /\ compute_message_hash(chat[index + 1]) # OldHash(index)
            /\ Intercept(MaxContext))
           => chat'[index + 1].needs_summary]_vars

UniformCost ==
    /\ Len(chat) > 0
    /\ \A k \in 1 .. Len(chat) : chat[k].mes = chat[1].mes /\ ~chat[k].memory

\* estimate_total(j) of the last pass, with correction factor 1.
EstimateTotal(j) == estimateChatSize(chat, j, 1000) + last.pass.nonChat

\* estimate_total(j) <= target and estimate_total(j) > target - c.
TightFit(j) ==
    /\ EstimateTotal(j) <= settings.target_context_size
    /\ EstimateTotal(j) > settings.target_context_size
                          - estimateMessagePromptTokens(chat[1])

VisitedAreBatchMultiples ==
    \A i \in 1 .. Len(last.pass.visited) :
        (last.pass.visited[i] - last.pass.start) % settings.batch_size = 0

EndsOffBatch ==
    (last.pass.final - last.pass.start) % settings.batch_size # 0

C9_SoftRecalibration ==
    [][(last'.op = "message_deleted" /\ last'.exceeded)
       => /\ CALIBRATION_STATE' = "CALIBRATING"
          /\ STABLE_COUNT' = 0
          /\ CHAT_TOKEN_CORRECTION_FACTOR' = CHAT_TOKEN_CORRECTION_FACTOR]_vars

\* C9, amended: ... the deletion leaves the correction factor unchanged in
\* every state; from STABLE or CALIBRATING it leaves the state CALIBRATING
\* with stable_count 0; from RETRAINING, WAITING or INITIAL_TRAINING it
\* leaves the state and stable_count as they were.
C9_SoftRecalibrationByState ==
    [][(last'.op = "message_deleted" /\ last'.exceeded)
       => /\ CHAT_TOKEN_CORRECTION_FACTOR' = CHAT_TOKEN_CORRECTION_FACTOR
          /\ IF CALIBRATION_STATE \in {"STABLE", "CALIBRATING"}
             THEN CALIBRATION_STATE' = "CALIBRATING" /\ STABLE_COUNT' = 0
             ELSE /\ CALIBRATION_STATE' = CALIBRATION_STATE
                  /\ STABLE_COUNT' = STABLE_COUNT]_vars

C9_Witness ==
    /\ last.op = "message_deleted"
    /\ last.exceeded
    /\ last.state0 = "STABLE"
    /\ CALIBRATION_STATE = "CALIBRATING"
    /\ STABLE_COUNT = 0

\* C11: in calculate_calibrated_target, if the newly computed target differs
\* from the current target by no more than 5% of the current target, neither
\* the stored target nor the cutoff index changes; if it differs by more
\* than 5%, the stored target is replaced and the cutoff index is reset.
C11_CalibrationHysteresis ==
    [][\A maxContext \in RetargetContexts :
           CalibratedTarget(maxContext)
           => LET current == settings.target_context_size
                  computed == last'.retarget.final
              IN /\ last'.retarget.called
                 /\ last'.retarget.current = current
                 /\ IF 100 * Abs(computed - current) <= 5 * current
                    THEN /\ settings'.target_context_size = current
                         /\ TRUNCATION_INDEX' = TRUNCATION_INDEX
                    ELSE /\ settings'.target_context_size = computed
                         /\ TRUNCATION_INDEX' = Null]_vars

C11_Witness ==
    /\ last.op = "calibrated_target"
    /\ last.retarget.called
    /\ last.retarget.final # last.retarget.current
    /\ 100 * Abs(last.retarget.final - last.retarget.current) <= 5 * last.retarget.current
    /\ settings.target_context_size = last.retarget.current
    /\ TRUNCATION_INDEX = 1

\* Below this distance (thousandths) the rounding of the fixed-point factor
\* absorbs a move of 15% of the gap.
FactorResolution == 3
ConvergenceTolerance == 4
ConvergenceUpdates == 40

\* C12: feeding the correction-factor update pairs with actual = k x predicted
\* for a constant k > 0 drives the smoothed factor to k: the distance to k
\* shrinks on every update (by at least 15%, up to rounding) and is below
\* the tolerance within a bounded number of updates.
C12_FactorConvergence ==
    /\ \A i \in 1 .. Len(fed) :
           LET before == Abs(fed[i].before - fed[i].ratio)
               after == Abs(fed[i].after - fed[i].ratio)
           IN /\ after <= before
              /\ before > FactorResolution => after < before
              /\ 1000 * after <= 850 * before + 500
    /\ Len(fed) >= ConvergenceUpdates
       => Abs(CHAT_TOKEN_CORRECTION_FACTOR - fed[1].ratio) < ConvergenceTolerance

C12_Witness ==
    /\ Len(fed) >= ConvergenceUpdates
    /\ fed[1].ratio = 3000
    /\ fed[1].before = 500
    /\ \A i \in 1 .. Len(fed) : fed[i].ratio = fed[1].ratio
    /\ Abs(CHAT_TOKEN_CORRECTION_FACTOR - fed[1].ratio) < ConvergenceTolerance

\* C13: each correction-factor update yields a value between the previous
\* factor and the measured ratio, moved by at least 15% and at most 40% of
\* the gap (up to rounding) and never past the ratio; with measured ratios
\* 0.9, 0.85, 0.83 from 1.0 the factor decreases monotonically and never
\* goes below the smallest measured ratio.
C13_BoundedStep ==
    /\ \A i \in 1 .. Len(fed) :
           LET gap == Abs(fed[i].ratio - fed[i].before)
               move == Abs(fed[i].after - fed[i].before)
           IN /\ Min(fed[i].before, fed[i].ratio) <= fed[i].after
              /\ fed[i].after <= Max(fed[i].before, fed[i].ratio)
              /\ 1000 * move >= 150 * gap - 500
              /\ 1000 * move <= 400 * gap + 500
    /\ (/\ Len(fed) = 3
        /\ fed[1].before = 1000
        /\ fed[1].ratio = 900 /\ fed[2].ratio = 850 /\ fed[3].ratio = 830)
       => \A i \in 1 .. 3 : fed[i].after < fed[i].before /\ fed[i].after >= 830

C13_Witness ==
    /\ Len(fed) = 3
    /\ fed[1].before = 1000
    /\ fed[1].ratio = 900 /\ fed[2].ratio = 850 /\ fed[3].ratio = 830
    /\ fed[3].after < fed[2].after /\ fed[2].after < fed[1].after
    /\ fed[1].after < 1000 /\ fed[3].after >= 830

\* A calibration snapshot has been captured and no correction-factor update
\* has used it yet.
SnapshotPending == LAST_PREDICTED.total > 0 /\ fed = << >>

\* C14: each calibration snapshot captured by a cutoff decision is consumed
\* by exactly one correction-factor update: no later update_status_display
\* call applies it again, and the refresh_memory that follows a stored
\* summary does not overwrite it before it is consumed.
C14_SnapshotConsumedOnce ==
    [][/\ Len(fed') <= 1
       /\ (last'.op = "summary_stored" /\ SnapshotPending)
          => LAST_PREDICTED' = LAST_PREDICTED]_vars

\* ------------------------------------------------------- queue properties
QueueIdle == ~summaryQueue.active /\ summaryQueue.loops = << >>

\* The concatenation of the index lists given to summarize().
RECURSIVE Flatten(_)
Flatten(lists) ==
    IF lists = << >> THEN << >> ELSE Head(lists) \o Flatten(Tail(lists))

HasSummary(index) == chat[index + 1].memory

\* needs_summary of the message in the conversation the queue starts on.
MarkedAtStart(index) == QueueChat(QueueLength, QueueCutoff)[index + 1].needs_summary

\* One summarize() call, and one stop() call that came while the k-th
\* generation call was in flight, the earlier calls having returned results.
StoppedDuring(k) ==
    /\ Len(summaryQueue.enqueued) = 1
    /\ summaryQueue.stops = <<k>>
    /\ k > 0
    /\ \A j \in 1 .. k - 1 : summaryQueue.enqueued[1][j] \notin summaryQueue.failed

\* C15: when the queue was given n indices once and stop() was called while
\* the generation call of the k-th item was in flight, then once the queue
\* is idle items 1..k-1 have summaries, item k has no summary and its
\* needs_summary mark is the one it had, and no generation call was started
\* for items k+1..n.
C15_StopMidQueue ==
    \A k \in 1 .. QueueLength :
        (QueueIdle /\ StoppedDuring(k)) =>
            LET items == summaryQueue.enqueued[1]
            IN /\ \A j \in 1 .. k - 1 : HasSummary(items[j])
               /\ ~HasSummary(items[k])
               /\ chat[items[k] + 1].needs_summary = MarkedAtStart(items[k])
               /\ summaryQueue.started = SubSeq(items, 1, k)

\* Five indices were given, stop() came during the third: the queue is idle.
C15_Witness ==
    /\ QueueIdle
    /\ StoppedDuring(3)
    /\ Len(summaryQueue.enqueued[1]) = 5
    /\ HasSummary(summaryQueue.enqueued[1][2])
    /\ ~HasSummary(summaryQueue.enqueued[1][3])
    /\ chat[summaryQueue.enqueued[1][3] + 1].needs_summary

\* The generation call of process() call t returns in this step.
Returns(t) ==
    /\ t \in DOMAIN summaryQueue.loops
    /\ summaryQueue.loops[t].pc = "generate"
    /\ t \in DOMAIN summaryQueue'.loops
    /\ summaryQueue'.loops[t].pc # "generate"

\* C16: the result of a generation call that was in flight when stop() was
\* called is never written as the summary of its message, and the message
\* keeps its needs_summary mark, whatever summarize() and stop() calls come
\* before the call returns.
C16_CancelledNeverWritten ==
    [][\A t \in 1 .. MaxLoops :
          (Returns(t) /\ summaryQueue.loops[t].cancelled) =>
              LET i == summaryQueue.loops[t].index + 1
              IN /\ chat'[i].memory = chat[i].memory
                 /\ chat'[i].needs_summary = chat[i].needs_summary]_vars

\* C17: at most one process() loop is running and at most one generation
\* call is in flight.
C17_OneAtATime ==
    /\ Len(summaryQueue.loops) <= 1
    /\ Cardinality({t \in DOMAIN summaryQueue.loops :
                        summaryQueue.loops[t].pc = "generate"}) <= 1

\* A generation call is in flight after two summarize() calls and a stop().
C17_Witness ==
    /\ Len(summaryQueue.enqueued) = 2
    /\ summaryQueue.stops # << >>
    /\ summaryQueue.active
    /\ InFlight(summaryQueue) > 0
    /\ summaryQueue.queue # << >>

\* The generation call of process() call t throws in this step.
Throws(t) == Returns(t) /\ last'.op \in {"generation_error", "generation_abort",
                                         "stopped_error", "stopped_abort"}

\* C18 as stated: a generation call that throws is recorded on its message,
\* writes no summary, and the items queued behind it are all processed.
C18_FailureRecorded ==
    [][\A t \in 1 .. MaxLoops :
          Throws(t) =>
              LET i == summaryQueue.loops[t].index + 1
              IN /\ chat'[i].error
                 /\ chat'[i].memory = chat[i].memory
                 /\ summaryQueue'.queue = summaryQueue.queue]_vars

\* C18 amended: a generation call that throws an error other than an
\* AbortError while the queue is not stopped is recorded on its message and
\* writes no summary, the items behind it stay queued with the loop running,
\* and once the queue is idle without a stop() call a generation call was
\* started for every index given to summarize().
C18_FailureRecordedUnlessStopped ==
    [][/\ \A t \in 1 .. MaxLoops :
            (Returns(t) /\ last'.op = "generation_error") =>
                LET i == summaryQueue.loops[t].index + 1
                IN /\ chat'[i].error
                   /\ chat'[i].memory = chat[i].memory
                   /\ summaryQueue'.queue = summaryQueue.queue
                   /\ summaryQueue'.active
       /\ (~summaryQueue'.active /\ summaryQueue'.stops = << >>) =>
              summaryQueue'.started = Flatten(summaryQueue'.enqueued)]_vars

\* The first generation call threw and was recorded, the items behind it
\* were processed, and the queue is idle.
C18_Witness ==
    /\ QueueIdle
    /\ summaryQueue.stops = << >>
    /\ summaryQueue.enqueued # << >>
    /\ chat[summaryQueue.enqueued[1][1] + 1].error
    /\ ~HasSummary(summaryQueue.enqueued[1][1])
    /\ HasSummary(summaryQueue.enqueued[1][2])
    /\ Len(summaryQueue.started) = Len(summaryQueue.enqueued[1])
\* summarize_message of process() call t returns to the loop in this step.
MessageDone(t) ==
    /\ t \in DOMAIN summaryQueue.loops
    /\ summaryQueue.loops[t].pc \in {"generate", "restore"}
    /\ t \in DOMAIN summaryQueue'.loops
    /\ summaryQueue'.loops[t].pc = "loop"

\* C19: whenever summarize_message switched the connection profile, the
\* profile that is active when it returns is the one that was active before
\* the switch, whatever the outcome of the generation call and whatever the
\* prior profile, no profile included.
C19_ProfileRestored ==
    [][\A t \in 1 .. MaxLoops :
          (MessageDone(t) /\ summaryQueue.loops[t].switched) =>
              connection_profile' = summaryQueue.loops[t].prior]_vars

\* C19 for the prior profiles that /profile reports as a non-empty string.
C19_NamedProfileRestored ==
    [][\A t \in 1 .. MaxLoops :
          (MessageDone(t) /\ summaryQueue.loops[t].switched
              /\ summaryQueue.loops[t].prior # "") =>
              connection_profile' = summaryQueue.loops[t].prior]_vars
\* C20 as stated: after every intercept, of every generation type, every
\* message has its ignore symbol set, to true exactly below the cutoff.
C20_EveryMessageFlagged ==
    last.op = "intercept" =>
        /\ Len(last.ignore) = Len(chat)
        /\ \A k \in DOMAIN chat :
              /\ last.ignore[k].set
              /\ last.ignore[k].value = (k - 1 < TRUNCATION_INDEX)

\* C20 amended: after every intercept every message has its ignore symbol
\* set, to true exactly below the cutoff, except the last message when the
\* generation is a continue, which has none.
C20_FlaggedUpToStart ==
    last.op = "intercept" =>
        /\ Len(last.ignore) = Len(chat)
        /\ \A k \in DOMAIN chat :
              IF last.type = "continue" /\ k = Len(chat)
              THEN ~last.ignore[k].set
              ELSE /\ last.ignore[k].set
                   /\ last.ignore[k].value = (k - 1 < TRUNCATION_INDEX)

\* A continue on a chat with messages below and above the cutoff.
C20_Witness ==
    /\ last.op = "intercept"
    /\ last.type = "continue"
    /\ TRUNCATION_INDEX > 0
    /\ Len(chat) > TRUNCATION_INDEX + 1
    /\ last.ignore[1] = Flag(TRUE)
    /\ last.ignore[Len(chat) - 1] = Flag(FALSE)
    /\ last.ignore[Len(chat)] = NoFlag

\* A message is live when the interceptor did not mark it as lagging.
Live(index) == index + 1 \in DOMAIN chat /\ ~chat[index + 1].lagging

Retrieved == qdrant.enabled /\ last.op = "intercept"

\* C21: after an intercept, no memory kept for injection has a source range
\* that contains a message live in the prompt (index >= cutoff), in particular
\* none of the last min_messages_to_keep messages.
C21_NoLiveMemory ==
    Retrieved =>
        \A m \in qdrant.memories :
            \A index \in m.firstIndex .. m.lastIndex : ~Live(index)

\* What the filter of retrieve_relevant_memories does ensure: a kept memory
\* ends before the last retain_recent_messages + 1 messages.
C21_OlderThanRecent ==
    Retrieved =>
        \A m \in qdrant.memories :
            m.lastIndex < Len(chat) - 1 - qdrant.retain_recent_messages

\* A kept memory among the always-kept last min_messages_to_keep messages.
C21_AlwaysKeptInjected ==
    /\ Retrieved
    /\ TRUNCATION_INDEX > 0
    /\ \E m \in qdrant.memories :
          /\ Live(m.lastIndex)
          /\ m.lastIndex >= Len(chat) - settings.min_messages_to_keep

\* The step in which a suspended intercept resumes after search_memories
\* threw.
RetrievalFailed == qdrant.pc = "retrieving" /\ qdrant'.failed

\* C23: when embedding generation or the search fails, the intercept still
\* completes: the memory set and the injection are empty, and the cutoff and
\* the exclusion flags are the ones the cycle computes without retrieval.
C23_FailureDegrades ==
    [][RetrievalFailed =>
          /\ qdrant'.pc = "idle" /\ last'.op = "intercept"
          /\ qdrant'.memories = {}
          /\ ~qdrant'.injection /\ ~qdrant'.prompt
          /\ TRUNCATION_INDEX' =
                InclusionLedger(Ledger, chat, settings, CURRENT_CONTEXT_SIZE,
                                rawPrompt).ti
          /\ chat' = InclusionFlags(chat, TRUNCATION_INDEX')
          /\ last'.ignore = IgnoreFlags(chat', qdrant.type)]_vars

\* A failed retrieval in a cycle that evicts, after messages were vectorized.
C23_Witness ==
    /\ qdrant.failed /\ last.op = "intercept"
    /\ qdrant.points # {}
    /\ TRUNCATION_INDEX > 0

\* The step in which the timer callback runs update_status_display on the
\* prompt of the generation that was rendered.
UpdateRuns == statusTimer /\ ~statusTimer' /\ rawPrompt # NoPrompt

\* C24: the update of generation n runs before the intercept of generation
\* n + 1 begins: never while that intercept waits for the retrieval, and
\* never after it.
C24_UpdateBeforeNextIntercept ==
    [][UpdateRuns => (qdrant.pc = "idle" /\ last.op = "character_message")]_vars

\* The update has run while an intercept was suspended on the retrieval.
C24_UpdateDuringRetrieval ==
    qdrant.pc = "retrieving" /\ last.op = "status_display"

\* The intercept of the next generation has ended with the update of the
\* last one still pending.
C24_DecisionBeforeUpdate ==
    /\ qdrant.enabled /\ last.op = "intercept"
    /\ statusTimer /\ rawPrompt # NoPrompt

Deduped == search.pc = "deduped"

Copies(hash) == {k \in DOMAIN search.results : search.results[k].hash = hash}

Kept(hash) ==
    {k \in DOMAIN search.uniqueResults : search.uniqueResults[k].hash = hash}

Ids(seq) == {seq[k].id : k \in DOMAIN seq}

\* Every result is either kept or listed once as a duplicate, results
\* without a hash are all kept, and one copy is kept of every hash.
OneCopyKept ==
    /\ Ids(search.uniqueResults) \cup
           {search.duplicateIds[k] : k \in DOMAIN search.duplicateIds}
         = Ids(search.results)
    /\ Len(search.uniqueResults) + Len(search.duplicateIds) = Len(search.results)
    /\ \A k \in Copies(NoHash) :
          \E j \in DOMAIN search.uniqueResults :
              search.uniqueResults[j] = search.results[k]
    /\ \A hash \in 1 .. MaxHash :
          Copies(hash) # {} => Cardinality(Kept(hash)) = 1

\* C22 as stated: the copy kept of a hash is the most recent one (largest
\* timestamp).
C22_KeepsMostRecent ==
    Deduped =>
        /\ OneCopyKept
        /\ \A hash \in 1 .. MaxHash : \A j \in Kept(hash) : \A k \in Copies(hash) :
              search.uniqueResults[j].timestamp >= search.results[k].timestamp

\* C22: of the results that share a hash detect_duplicates keeps exactly one,
\* the oldest copy (smallest timestamp, the last of them in the results when
\* several have it), and lists the ids of the others in duplicateIds; results
\* without a hash are all kept.
C22_KeepsOldest ==
    Deduped =>
        /\ OneCopyKept
        /\ \A hash \in 1 .. MaxHash : \A j \in Kept(hash) : \A k \in Copies(hash) :
              /\ search.uniqueResults[j].timestamp <= search.results[k].timestamp
              /\ search.uniqueResults[j].timestamp = search.results[k].timestamp
                    => search.uniqueResults[j].id >= search.results[k].id

\* Three copies of one hash with different timestamps, the oldest neither
\* first nor last, next to a result without a hash.
C22_Witness ==
    /\ Deduped
    /\ Copies(NoHash) # {}
    /\ \E i, j, k \in Copies(1) :
          /\ i < j /\ j < k
          /\ search.results[j].timestamp < search.results[i].timestamp
          /\ search.results[j].timestamp < search.results[k].timestamp
    /\ Len(search.duplicateIds) = 2

\* The ledger of reset_truncation_index followed by reset_calibration.
ResetLedger ==
    /\ TRUNCATION_INDEX = Null
    /\ CALIBRATION_STATE = "WAITING"
    /\ GENERATION_COUNT = 0 /\ STABLE_COUNT = 0 /\ RETRAIN_COUNT = 0
    /\ CHAT_TOKEN_CORRECTION_FACTOR = 1000

ResetRecord ==
    /\ chat_metadata.saved
    /\ chat_metadata.truncation_index = Null
    /\ chat_metadata.calibration_state = "WAITING"
    /\ chat_metadata.generation_count = 0
    /\ chat_metadata.stable_count = 0
    /\ chat_metadata.retrain_count = 0
    /\ chat_metadata.correction_factor = 1000

\* C25: after Reset All the cutoff is unset, the state is WAITING, the
\* counters are 0 and the factor is 1.0, and the persisted record holds that
\* same reset state.
C25_ResetPersisted ==
    last.op = "reset_all" => (ResetLedger /\ ResetRecord)

\* The in-memory half of C25 alone.
C25_ResetInMemory == last.op = "reset_all" => ResetLedger

\* A reload of the record right after Reset All gives the reset calibration.
C25_ResetSurvivesReload ==
    [][(last.op = "reset_all" /\ last'.op \in {"chat_changed", "intercept"}) =>
          /\ CALIBRATION_STATE' = "WAITING"
          /\ GENERATION_COUNT' = 0 /\ STABLE_COUNT' = 0 /\ RETRAIN_COUNT' = 0
          /\ CHAT_TOKEN_CORRECTION_FACTOR' = 1000]_vars

\* The step in which update_status_display calls calibrate_target_size.
CalibrationStep ==
    /\ statusTimer /\ ~statusTimer'
    /\ rawPrompt # NoPrompt
    /\ settings.auto_calibrate_target

AllowedTransitions ==
    {<<"WAITING", "INITIAL_TRAINING">>, <<"INITIAL_TRAINING", "CALIBRATING">>,
     <<"CALIBRATING", "STABLE">>, <<"STABLE", "RETRAINING">>,
     <<"RETRAINING", "CALIBRATING">>}

StartThreshold == (getMaxContextSize * settings.target_utilization) \div 100

\* C26: a calibrate_target_size step leaves the state unchanged or moves it
\* along WAITING -> INITIAL_TRAINING -> CALIBRATING -> STABLE -> RETRAINING ->
\* CALIBRATING; it leaves STABLE only when deviation > 1.5 x tolerance and
\* WAITING only when the size has reached the start threshold, and never
\* returns to WAITING or INITIAL_TRAINING.
C26_Transitions ==
    [][CalibrationStep =>
          /\ \/ CALIBRATION_STATE' = CALIBRATION_STATE
             \/ <<CALIBRATION_STATE, CALIBRATION_STATE'>> \in AllowedTransitions
          /\ (CALIBRATION_STATE = "STABLE" /\ CALIBRATION_STATE' # "STABLE")
                => FarOutOfTolerance(rawPrompt.total, settings)
          /\ (CALIBRATION_STATE = "WAITING" /\ CALIBRATION_STATE' # "WAITING")
                => rawPrompt.total >= StartThreshold
          /\ CALIBRATION_STATE' = "WAITING" => CALIBRATION_STATE = "WAITING"
          /\ CALIBRATION_STATE' = "INITIAL_TRAINING"
                => CALIBRATION_STATE \in {"WAITING", "INITIAL_TRAINING"}]_vars

\* A step has taken the state from STABLE to RETRAINING.
C26_Witness ==
    /\ last.op = "status_display" /\ last.state0 = "STABLE"
    /\ CALIBRATION_STATE = "RETRAINING"

\* C27: a step in INITIAL_TRAINING (RETRAINING) with its counter at 0 stays
\* and counts 1; the next one moves to CALIBRATING, resets the counter and
\* calls calculate_calibrated_target; the two counters are always 0 or 1.
C27_TwoStepTraining ==
    /\ [](GENERATION_COUNT \in {0, 1} /\ RETRAIN_COUNT \in {0, 1})
    /\ [][(CalibrationStep /\ CALIBRATION_STATE = "INITIAL_TRAINING") =>
            IF GENERATION_COUNT = 0
            THEN CALIBRATION_STATE' = "INITIAL_TRAINING" /\ GENERATION_COUNT' = 1
            ELSE /\ CALIBRATION_STATE' = "CALIBRATING" /\ GENERATION_COUNT' = 0
                 /\ last'.retarget.called]_vars
    /\ [][(CalibrationStep /\ CALIBRATION_STATE = "RETRAINING") =>
            IF RETRAIN_COUNT = 0
            THEN CALIBRATION_STATE' = "RETRAINING" /\ RETRAIN_COUNT' = 1
            ELSE /\ CALIBRATION_STATE' = "CALIBRATING" /\ RETRAIN_COUNT' = 0
                 /\ last'.retarget.called]_vars
    /\ [][(CalibrationStep /\ CALIBRATION_STATE' = "INITIAL_TRAINING"
              /\ CALIBRATION_STATE # "INITIAL_TRAINING") => GENERATION_COUNT' = 0]_vars
    /\ [][(CalibrationStep /\ CALIBRATION_STATE' = "RETRAINING"
              /\ CALIBRATION_STATE # "RETRAINING") => RETRAIN_COUNT' = 0]_vars

\* The second step of a retraining has moved the state to CALIBRATING.
C27_Witness ==
    /\ last.op = "status_display" /\ last.state0 = "RETRAINING"
    /\ CALIBRATION_STATE = "CALIBRATING"
    /\ last.retarget.called

\* C29: a step in CALIBRATING adds 1 to the stable count when the size is
\* within tolerance and otherwise takes 2 (deviation > 1.5 x tolerance) or 1
\* from it, not below 0; the stable count is always between 0 and
\* STABLE_THRESHOLD, and it is STABLE_THRESHOLD or more whenever the state is
\* STABLE.
C29_StableCount ==
    /\ [](/\ 0 <= STABLE_COUNT /\ STABLE_COUNT <= STABLE_THRESHOLD
          /\ CALIBRATION_STATE = "STABLE" => STABLE_COUNT >= STABLE_THRESHOLD)
    /\ [][(CalibrationStep /\ CALIBRATION_STATE = "CALIBRATING") =>
            STABLE_COUNT' =
                IF WithinTolerance(rawPrompt.total, settings) THEN STABLE_COUNT + 1
                ELSE IF FarOutOfTolerance(rawPrompt.total, settings)
                     THEN Max(0, STABLE_COUNT - 2)
                     ELSE Max(0, STABLE_COUNT - 1)]_vars

\* An out-of-tolerance step below 1.5 x tolerance has left a stable count of
\* 1 in CALIBRATING.
C29_Witness ==
    /\ last.op = "status_display" /\ last.state0 = "CALIBRATING"
    /\ CALIBRATION_STATE = "CALIBRATING"
    /\ ~WithinTolerance(rawPrompt.total, settings)
    /\ ~FarOutOfTolerance(rawPrompt.total, settings)
    /\ STABLE_COUNT = 1

\* The calibration step that moves the state into STABLE.
BecomesStable ==
    /\ CalibrationStep
    /\ CALIBRATION_STATE # "STABLE" /\ CALIBRATION_STATE' = "STABLE"

Stable == CALIBRATION_STATE = "STABLE"

\* The steps of WAITING, of the training phase and of the stable count.
StepsToStable == 1 + TRAINING_GENERATIONS + STABLE_THRESHOLD

\* A reply has been rendered and its size is good, or none is pending.
GoodPrompt == rawPrompt = NoPrompt \/ GoodSize(rawPrompt.total, settings)

Rendered == last.op = "character_message"

\* C30 as stated: after StepsToStable consecutive good steps from WAITING
\* the state is STABLE, replies with good sizes without end lead to STABLE,
\* and STABLE is left only by a step with deviation > 1.5 x tolerance.
C30_StableWhileInTolerance ==
    /\ []((steps.good >= StepsToStable /\ last.op = "status_display") => Stable)
    /\ (([]<>Rendered /\ <>[]GoodPrompt) => <>Stable)
    /\ [][(Stable /\ ~Stable') =>
            (CalibrationStep /\ FarOutOfTolerance(rawPrompt.total, settings))]_vars

\* C30: after StepsToStable consecutive good steps from WAITING, with no
\* other change of the calibration state and counters in between, the state
\* is STABLE; replies with good sizes without end lead to STABLE for good;
\* and STABLE is left only by a step with deviation > 1.5 x tolerance, by a
\* deletion of messages or by a CHAT_CHANGED event that reloads the stored
\* record.
C30_StableUnlessDisturbed ==
    /\ []((steps.run >= StepsToStable /\ Counters(Ledger) = steps.after) => Stable)
    /\ (([]<>Rendered /\ <>[]GoodPrompt) => <>[]Stable)
    /\ [][(Stable /\ ~Stable') =>
            \/ CalibrationStep /\ FarOutOfTolerance(rawPrompt.total, settings)
            \/ last'.op \in {"message_deleted", "chat_changed"}]_vars

\* STABLE reached by StepsToStable good steps from WAITING.
C30_Witness ==
    /\ Stable /\ last.op = "status_display"
    /\ steps.run = StepsToStable

\* A deletion of messages has taken the state from STABLE to CALIBRATING.
C30_Disturbed ==
    /\ last.op = "message_deleted" /\ last.state0 = "STABLE"
    /\ CALIBRATION_STATE = "CALIBRATING"

\* ------------------------------------------------------------ C36 disabled
\* The extension switched off and on during a conversation, with Qdrant
\* retrieval on or off.
InitDisabled ==
    \E st \in SettingsSet({8}, {1}, {2}, {FALSE}) :
        \E q \in {QdrantOff, QdrantOn} :
            InitWithFrom("adaptive", st, q, NoSteps, NoSearch)

NextDisabled ==
    \/ Len(chat) < MaxLen /\ qdrant.pc = "idle" /\ UserMessage(2)
    \/ /\ Len(chat) < MaxLen
       /\ last.op = "intercept"
       /\ \E prompt \in SnapshotPrompts : CharacterMessage(2, prompt)
    \/ InterceptType(MaxContext, "normal")
    \/ InterceptBegin(MaxContext, "normal")
    \/ \E found \in SUBSET qdrant.points : \E threw \in BOOLEAN :
          InterceptResume(found, threw)
    \/ \E index \in 0 .. MaxLen - 1 : Vectorized(index)
    \/ \E value \in BOOLEAN : SetEnabled(value)

SpecDisabled == InitDisabled /\ [][NextDisabled]_vars

\* The interceptor has returned while the extension is disabled.
InterceptedDisabled == last.op = "intercept" /\ ~settings.enabled

\* A message the interceptor handed back with the ignore symbol set to true.
Excluded(k) == last.ignore[k].set /\ last.ignore[k].value

\* C36: with truncation disabled the interceptor flags no message as
\* excluded, whatever cutoff and lagging flags remain from earlier cycles,
\* also when Qdrant retrieval is on.
C36_DisabledFlagsNothing ==
    InterceptedDisabled => \A k \in DOMAIN last.ignore : ~Excluded(k)

\* What does hold: with truncation and retrieval both off the interceptor
\* returns before it touches a message.
C36_BothOffFlagsNothing ==
    (InterceptedDisabled /\ ~qdrant.enabled) => last.ignore = Unflagged(chat)

\* The stale flags applied: disabled, retrieval on, a message excluded.
C36_StaleFlagsApplied ==
    /\ InterceptedDisabled
    /\ qdrant.enabled
    /\ \E k \in DOMAIN last.ignore : Excluded(k)

\* ------------------------------------------------------- C32 summary block
\* A conversation whose messages are character or user messages, thought
\* messages, and messages another extension has pinned (remember) or
\* excluded; summaries are stored for them one by one between intercepts.
InjectionLength == 4

MessageKinds ==
    {NewMessage(2, FALSE), NewMessage(2, TRUE),
     [NewMessage(2, FALSE) EXCEPT !.is_thoughts = TRUE],
     [NewMessage(2, FALSE) EXCEPT !.remember = TRUE],
     [NewMessage(2, TRUE) EXCEPT !.remember = TRUE],
     [NewMessage(2, FALSE) EXCEPT !.exclude = TRUE]}

InitInjection ==
    \E st \in SettingsSet({8}, {1}, {1}, {FALSE}) :
        \E c \in [1 .. InjectionLength -> MessageKinds] :
            InitStored(c, st, Null, 1000, NoMetadata, "main")

NextInjection ==
    \/ Intercept(MaxContext)
    \/ \E index \in 0 .. InjectionLength - 1 : SummaryStored(index)

SpecInjection == InitInjection /\ [][NextInjection]_vars

\* refresh_memory has just handed the summary block to the host.
Refreshed == last.op \in {"intercept", "summary_stored"}

\* The lagging messages that have a summary.
LaggingSummaries ==
    {i \in 0 .. Len(chat) - 1 : i < OrZero(TRUNCATION_INDEX) /\ chat[i + 1].memory}

\* The Budget Estimator counts the summary of message i: the estimate at the
\* cutoff is higher with the summary than without it.
Counted(i) ==
    estimateChatSize(chat, OrZero(TRUNCATION_INDEX), CHAT_TOKEN_CORRECTION_FACTOR)
        > estimateChatSize([chat EXCEPT ![i + 1].memory = FALSE],
                           OrZero(TRUNCATION_INDEX), CHAT_TOKEN_CORRECTION_FACTOR)

\* The eligibility rule: not pinned-to-remember, not explicitly excluded,
\* not a thought message (no minimum length is configured).
Eligible(i) ==
    ~chat[i + 1].remember /\ ~chat[i + 1].exclude /\ ~chat[i + 1].is_thoughts

\* C32: for every lagging message with a summary, the summary is in the
\* injected block exactly when the estimator counts it, and both exactly
\* when the message passes the eligibility rule.
C32_InjectedIffCounted ==
    Refreshed =>
        \A i \in LaggingSummaries :
            /\ (i \in last.injected) <=> Counted(i)
            /\ Counted(i) <=> Eligible(i)

\* What the code does: every lagging summary is injected, and the
\* estimator counts those check_message_exclusion accepts.
C32_AllInjectedSomeCounted ==
    Refreshed =>
        /\ last.injected = LaggingSummaries
        /\ \A i \in LaggingSummaries :
               Counted(i) <=> check_message_exclusion(chat[i + 1])

\* A summary in the injected block whose cost the estimator leaves out.
C32_InjectedUncounted ==
    /\ Refreshed
    /\ \E i \in LaggingSummaries : i \in last.injected /\ ~Counted(i)

\* A pinned message: ineligible by the rule, counted and injected.
C32_PinnedCounted ==
    /\ Refreshed
    /\ \E i \in LaggingSummaries :
          chat[i + 1].remember /\ Counted(i) /\ i \in last.injected

\* -------------------------------------------------- C31 auto-summarization
\* Generation cycles with auto-summarization on or off: a user message is
\* rendered, the generation is intercepted, the character message is
\* rendered; the summarization calls return in the background.
InitAutoSummarize ==
    \E st \in SettingsSet({8}, {1}, MinKeeps, {FALSE}) :
        \E auto \in BOOLEAN :
            InitWith("adaptive", [st EXCEPT !.auto_summarize = auto])

NextAutoSummarize ==
    \/ /\ Len(chat) < MaxLen
       /\ last.op # "user_message"
       /\ \E text \in Texts : UserMessage(text)
    \/ /\ last.op = "user_message"
       /\ Intercept(MaxContext)
    \/ /\ Len(chat) < MaxLen
       /\ last.op = "intercept"
       /\ \E prompt \in SnapshotPrompts : CharacterMessage(2, prompt)
    \/ \E t \in 1 .. MaxLoops : \E outcome \in GenerationOutcomes :
           GenerationReturns(t, outcome)
    \/ \E t \in 1 .. MaxLoops : ProcessLoop(t)

SpecAutoSummarize == InitAutoSummarize /\ [][NextAutoSummarize]_vars

\* The messages an intercept step pushes below the cutoff that have no
\* summary.
PushedBelow ==
    {i \in 0 .. Len(chat) - 1 :
        ~chat[i + 1].lagging /\ chat'[i + 1].lagging /\ ~chat[i + 1].memory
        /\ ~chat[i + 1].is_system}

\* Message i waits in the queue q or is the argument of a running
\* summarize_message call.
Enqueued(q, i) ==
    \/ \E k \in DOMAIN q.queue : q.queue[k] = i
    \/ \E t \in DOMAIN q.loops : q.loops[t].index = i /\ q.loops[t].pc # "loop"

StartsGeneration == Len(summaryQueue'.started) > Len(summaryQueue.started)

\* The message the step sends to the summarizer.
Sent == summaryQueue'.started[Len(summaryQueue'.started)]

\* Message i has a summary made from its current text.
CurrentSummary(i) ==
    chat[i + 1].memory /\ chat[i + 1].hash = getStringHash(chat[i + 1].mes)

\* C37: the queue never holds an index twice, and no message is sent to the
\* summarizer while it has a current summary.
C37_NoDuplicateWork ==
    /\ [](\A k, n \in DOMAIN summaryQueue.queue :
             summaryQueue.queue[k] = summaryQueue.queue[n] => k = n)
    /\ [][StartsGeneration => ~CurrentSummary(Sent)]_vars

\* The first half alone, and the second half alone.
C37_QueueHoldsNoIndexTwice ==
    \A k, n \in DOMAIN summaryQueue.queue :
        summaryQueue.queue[k] = summaryQueue.queue[n] => k = n

C37_NeverSummarizedAgain ==
    [][StartsGeneration => ~CurrentSummary(Sent)]_vars

\* --------------------------------------------------------- C33 stopping
\* The queue on a conversation of three messages, two of them below the
\* cutoff.  A generateRaw call that was started returns, and a process()
\* call that can go on does: the host runs every continuation of a settled
\* promise.
InitStopping ==
    InitQueueWith(QueueChat(ProfileLength, ProfileCutoff), ProfileCutoff, {""}, {"main"})

NextStopping ==
    \/ SummarizeAll
    \/ AutoSummarize
    \/ Stop
    \/ \E t \in 1 .. MaxLoops : \E outcome \in GenerationOutcomes :
           GenerationReturns(t, outcome)
    \/ \E t \in 1 .. MaxLoops : ProcessLoop(t)

SpecStopping ==
    /\ InitStopping
    /\ [][NextStopping]_vars
    /\ WF_vars(\E t \in 1 .. MaxLoops : \E outcome \in GenerationOutcomes :
                   GenerationReturns(t, outcome))
    /\ WF_vars(\E t \in 1 .. MaxLoops : ProcessLoop(t))

\* The stopping status: stop() has acted and the loop has not ended.
Stopping == summaryQueue.active /\ summaryQueue.stopped

\* The idle queue.
Idle ==
    /\ ~summaryQueue.active /\ ~summaryQueue.stopped
    /\ summaryQueue.queue = << >>

\* The fields of the queue object.
QueueFields(q) == <<q.queue, q.active, q.stopped, q.abortController>>

\* stop() leaves the queue object as it is.
StopChangesNothing == QueueFields(stop(summaryQueue)) = QueueFields(summaryQueue)

\* process() goes on after the summarize_message call that stop() cancelled
\* has returned.
CancelledReturns ==
    /\ last'.op = "process"
    /\ \E t \in DOMAIN summaryQueue.loops :
          summaryQueue.loops[t].pc = "loop" /\ summaryQueue.loops[t].cancelled

C33_Resumed ==
    /\ summaryQueue.active /\ ~summaryQueue.stopped
    /\ \E t \in DOMAIN summaryQueue.loops :
          summaryQueue.loops[t].pc = "generate" /\ summaryQueue.loops[t].cancelled

\* ------------------------------------------------- C38 worker exceptions
\* The queue with a summary profile configured, where the slash commands of
\* the host can fail.
InitProfileFailure ==
    InitQueueWith(QueueChat(ProfileLength, ProfileCutoff), ProfileCutoff,
                  {"summary"}, Profiles)

NextProfileFailure ==
    \/ SummarizeAll
    \/ AutoSummarize
    \/ Stop
    \/ \E t \in 1 .. MaxLoops : \E outcome \in GenerationOutcomes :
           GenerationReturns(t, outcome)
    \/ \E t \in 1 .. MaxLoops : ProcessLoop(t)
    \/ \E t \in 1 .. MaxLoops : ProfileRead(t)
    \/ \E t \in 1 .. MaxLoops : ProfileSwitched(t)
    \/ \E t \in 1 .. MaxLoops : ProfileRestored(t)
    \/ \E t \in 1 .. MaxLoops : ProfileCallThrows(t)

SpecProfileFailure == InitProfileFailure /\ [][NextProfileFailure]_vars

\* The step ends a process() call.
LoopEnds == Len(summaryQueue'.loops) < Len(summaryQueue.loops)

\* C38: whenever the processing loop ends, for any reason, active is false
\* afterwards; the queue is never active without a running worker.
C38_ActiveResetWhenLoopEnds ==
    /\ [][LoopEnds => ~summaryQueue'.active]_vars
    /\ [](summaryQueue.active => summaryQueue.loops # << >>)

\* What does hold: a loop that ends because its while condition fails
\* resets active and stopped.
C38_ActiveResetOnReturn ==
    [][(LoopEnds /\ last'.op # "profile_threw") =>
          (~summaryQueue'.active /\ ~summaryQueue'.stopped)]_vars

\* The queue left active with items waiting and no process() call running.
C38_Stuck ==
    /\ summaryQueue.active
    /\ summaryQueue.loops = << >>
    /\ summaryQueue.queue # << >>

\* A summarize() call on the stuck queue has started no worker.
C38_StuckAfterSummarize ==
    /\ C38_Stuck
    /\ last.op = "auto_summarize"

\* ------------------------------------------------- C34 batch loop, by step
\* The batch sizes a stored setting can hold: Number(slider value), and the
\* loop's own test batchSize > 0 foresees the other case.
LoopBatchSizes == {-1, 0, 1, 2}
MaxIterations == 6

\* calculate_truncation_index up to its while loop, as the interceptor's
\* refresh_memory reaches it: whether the calculation runs at all, and the
\* locals the loop starts from.
LoopEntry(contextSize) ==
    LET L2 == AfterLoad(Ledger)
        currentIndex == OrZero(L2.ti)
        maxIndex == Max(Len(chat) - settings.min_messages_to_keep, 0)
        nextIndex == Min(currentIndex, maxIndex)
    IN [calculates |-> /\ NeedsCalculation(L2.ti)
                       /\ contextSize # 0
                       /\ contextSize > L2.target,
        ledger |-> L2,
        locals |-> [pc |-> "loop", currentIndex |-> currentIndex,
                    nextIndex |-> nextIndex,
                    currentChatSize |-> estimateChatSize(chat, currentIndex, L2.cf),
                    maxIndex |-> maxIndex,
                    nonChat |-> nonChatBudgetOf(rawPrompt, contextSize),
                    iterations |-> 0]]

\* while (currentChatSize + nonChatBudget > targetSize && nextIndex < maxIndex)
LoopCondition(b) ==
    /\ b.currentChatSize + b.nonChat > settings.target_context_size
    /\ b.nextIndex < b.maxIndex

EntersLoop(contextSize) ==
    /\ settings.enabled
    /\ LoopEntry(contextSize).calculates
    /\ LoopCondition(LoopEntry(contextSize).locals)

\* The interceptor runs up to the first test of the while loop, which holds.
InterceptEnters(contextSize) ==
    /\ variant = "adaptive"
    /\ ~qdrant.enabled
    /\ batch.pc = "idle"
    /\ EntersLoop(contextSize)
    /\ CURRENT_CONTEXT_SIZE' = contextSize
    /\ Store(LoopEntry(contextSize).ledger, settings)
    /\ batch' = LoopEntry(contextSize).locals
    /\ last' = Event("intercept_enters", NoPass)
    /\ UNCHANGED <<variant, qdrant, steps, search, queueVars, chat, rawPrompt,
                   snapshotVars, statusTimer, ghostVars>>

\* One iteration of the while loop: the batch end, the estimate behind it,
\* the scan and the break if that is under target, else the two assignments.
BatchIteration ==
    /\ batch.pc = "loop"
    /\ LET targetSize == settings.target_context_size
           cf == CHAT_TOKEN_CORRECTION_FACTOR
           stepEnd == IF settings.batch_size > 0
                      THEN Min(batch.nextIndex + settings.batch_size, batch.maxIndex)
                      ELSE batch.nextIndex
           candidateChatSize == estimateChatSize(chat, stepEnd, cf)
           found == SubBatchScan(chat, cf, batch.nonChat, targetSize,
                                 batch.nextIndex, stepEnd)
       IN batch' =
              IF ~LoopCondition(batch)
              THEN [batch EXCEPT !.pc = "done"]
              ELSE IF candidateChatSize + batch.nonChat <= targetSize
              THEN [batch EXCEPT !.pc = "done", !.nextIndex = found,
                                 !.currentChatSize =
                                     IF found > batch.nextIndex
                                     THEN estimateChatSize(chat, found, cf)
                                     ELSE batch.currentChatSize]
              ELSE [batch EXCEPT !.nextIndex = stepEnd,
                                 !.currentChatSize = candidateChatSize,
                                 !.iterations = Min(batch.iterations + 1,
                                                    MaxIterations)]
    /\ UNCHANGED <<variant, qdrant, steps, search, queueVars, chat,
                   CURRENT_CONTEXT_SIZE, rawPrompt, ledgerVars, snapshotVars,
                   statusTimer, ghostVars, last>>

\* The loop is left: the rest of calculate_truncation_index and of the
\* interceptor.
InterceptLeaves ==
    /\ variant = "adaptive"
    /\ batch.pc = "done"
    /\ batch' = NoBatch
    /\ InterceptRest(CURRENT_CONTEXT_SIZE, "normal")
    /\ UNCHANGED <<variant, qdrant, steps, search, queueVars, CURRENT_CONTEXT_SIZE,
                   rawPrompt, snapshotVars, statusTimer, countVars>>

InitBatchLoop ==
    \E st \in SettingsSet({8}, LoopBatchSizes, MinKeeps, {FALSE}) :
        InitWith("adaptive", st)

NextBatchLoop ==
    \/ batch.pc = "idle" /\ Len(chat) < MaxLen
       /\ \E text \in Texts : UserMessage(text)
    \/ batch.pc = "idle" /\ Len(chat) < MaxLen
       /\ \E text \in Texts : CharacterMessage(text, GrowthPrompt)
    \/ \E contextSize \in ContextSizes :
           batch.pc = "idle" /\ ~EntersLoop(contextSize) /\ Intercept(contextSize)
    \/ \E contextSize \in ContextSizes : InterceptEnters(contextSize)
    \/ BatchIteration
    \/ InterceptLeaves

\* The loop is synchronous code: once entered it runs on.
SpecBatchLoop ==
    InitBatchLoop /\ [][NextBatchLoop]_vars /\ WF_vars(BatchIteration)

\* C34: the batch loop terminates for every configuration and message set,
\* batch_size = 0 and negative included, whenever it is entered with the
\* estimate over target and the cutoff below the floor.
C34_BatchLoopTerminates == (batch.pc = "loop") ~> (batch.pc = "done")

\* What does hold: with a positive batch size the loop ends, after at most
\* one iteration per message, and the cutoff the interceptor then stores is
\* the one the loop reached.
C34_TerminatesForPositiveBatch ==
    /\ (batch.pc = "loop" /\ settings.batch_size > 0) ~> (batch.pc = "done")
    /\ [](settings.batch_size > 0 => batch.iterations <= Len(chat))
    /\ [][(batch.pc = "done" /\ batch'.pc = "idle") =>
            (/\ last'.pass.ran
             /\ TRUNCATION_INDEX' = Max(batch.nextIndex, batch.currentIndex))]_vars

\* An iteration with batch_size <= 0 has changed nothing, over and over.
C34_NoProgress ==
    /\ batch.pc = "loop"
    /\ settings.batch_size <= 0
    /\ batch.iterations = MaxIterations
    /\ batch.nextIndex = 0

\* The loop left with a positive batch size after a full batch.
C34_LeftAfterBatches ==
    /\ batch.pc = "done"
    /\ settings.batch_size > 0
    /\ batch.iterations > 0

\* ------------------------------------------------- C35 conversation switch
\* The conversations the user can switch to, and what the host has stored
\* with them: no record of this extension, or a saved one.
SwitchChats ==
    { << NewMessage(2, TRUE), NewMessage(2, FALSE), NewMessage(1, TRUE) >>,
      << NewMessage(1, TRUE), NewMessage(2, FALSE), NewMessage(2, TRUE),
         NewMessage(2, FALSE) >> }

SwitchMetadata(st) ==
    {NoMetadata} \cup {meta \in StoredMetadata(st) : meta.calibration_state = "STABLE"}

\* CHAT_CHANGED with a chat id other than the current one: the host has
\* replaced the chat and its metadata; TRUNCATION_INDEX = null,
\* load_truncation_index, the Qdrant memories are cleared; then
\* snapshot_chat_state and refresh_memory.  The summary queue is not touched:
\* AtSwitch writes its history fields only.
AtSwitch(q) ==
    [q EXCEPT !.stale = Len(q.queue),
              !.loops = [t \in DOMAIN q.loops |->
                            IF q.loops[t].pc = "loop" THEN q.loops[t]
                            ELSE [q.loops[t] EXCEPT !.foreign = TRUE]]]

ChatSwitched(c, meta) ==
    /\ variant = "adaptive"
    /\ summaryQueue' = AtSwitch(summaryQueue)
    /\ LAST_CHAT_LENGTH' = snapshot_length(c)
    /\ LAST_CHAT_HASHES' = snapshot_hashes(c)
    /\ CURRENT_CONTEXT_SIZE' = CURRENT_CONTEXT_SIZE
    /\ rawPrompt' = NoPrompt
    /\ qdrant' = [qdrant EXCEPT !.memories = {}, !.injection = FALSE]
    /\ \E L0 \in {load_truncation_index([Ledger EXCEPT !.ti = Null, !.meta = meta])} :
       \E L1 \in {IF settings.enabled
                  THEN InclusionLedger(L0, c, settings, CURRENT_CONTEXT_SIZE, NoPrompt)
                  ELSE L0} :
          /\ Store(L1, settings)
          /\ chat' = IF settings.enabled THEN InclusionFlags(c, L1.ti) ELSE c
          /\ fed' = AfterDecision(L1.pass)
          /\ last' = [Event("chat_switched", L1.pass) EXCEPT !.fresh = ~meta.saved]
    /\ UNCHANGED <<variant, steps, search, batch, connection_profile, statusTimer,
                   countVars>>

InitSwitch ==
    \E st \in SettingsSet({8}, {1}, {1}, {FALSE}) : InitWith("adaptive", st)

NextSwitch ==
    \/ Len(chat) < MaxLen /\ \E text \in Texts : UserMessage(text)
    \/ Len(chat) < MaxLen /\ \E text \in Texts : CharacterMessage(text, GrowthPrompt)
    \/ \E contextSize \in ContextSizes : Intercept(contextSize)
    \/ StatusDisplay
    \/ \E c \in SwitchChats : \E meta \in SwitchMetadata(settings) :
           ChatSwitched(c, meta)

SpecSwitch == InitSwitch /\ [][NextSwitch]_vars

\* The handler that ran last switched to a conversation without a stored
\* record.
SwitchedFresh == last.op = "chat_switched" /\ last.fresh

\* What a module that has seen no other conversation holds after
\* CHAT_CHANGED for this conversation.
FreshLedger ==
    InclusionLedger([ti |-> Null, cf |-> 1000, state |-> "WAITING", gen |-> 0,
                     stable |-> 0, retrain |-> 0, del |-> 0, meta |-> NoMetadata,
                     pred |-> [total |-> 0, chat |-> 0, nonChat |-> 0],
                     pass |-> NoPass, target |-> settings.target_context_size,
                     retarget |-> NoRetarget],
                    [k \in 1 .. Len(chat) |->
                        [chat[k] EXCEPT !.lagging = FALSE, !.needs_summary = FALSE]],
                    settings, 0, NoPrompt)

\* C35: after switching to a conversation that has no persisted ledger, the
\* ledger in use is the initial one (cutoff unset, correction factor 1.0,
\* state WAITING, all counters 0, no pending calibration snapshot), whatever
\* happened in the previous conversation.
C35_FreshLedgerAfterSwitch ==
    SwitchedFresh =>
        /\ CHAT_TOKEN_CORRECTION_FACTOR = 1000
        /\ CALIBRATION_STATE = "WAITING"
        /\ GENERATION_COUNT = 0 /\ STABLE_COUNT = 0
        /\ RETRAIN_COUNT = 0 /\ DELETION_COUNT = 0
        /\ OrZero(TRUNCATION_INDEX) = OrZero(FreshLedger.ti)
        /\ LAST_PREDICTED = FreshLedger.pred

\* What does hold: the switch resets the calibration state and the counters
\* and leaves the correction factor what it was in the conversation left;
\* the record it stores for the new conversation holds that factor.
C35_SwitchKeepsFactor ==
    /\ [](SwitchedFresh =>
            /\ CALIBRATION_STATE = "WAITING"
            /\ GENERATION_COUNT = 0 /\ STABLE_COUNT = 0
            /\ RETRAIN_COUNT = 0 /\ DELETION_COUNT = 0)
    /\ [][(last'.op = "chat_switched" /\ last'.fresh) =>
            (/\ CHAT_TOKEN_CORRECTION_FACTOR' = CHAT_TOKEN_CORRECTION_FACTOR
             /\ chat_metadata'.saved =>
                    chat_metadata'.correction_factor = CHAT_TOKEN_CORRECTION_FACTOR)]_vars

\* The factor learned in one conversation in use in the next, and stored
\* with it.
C35_FactorCarriedOver ==
    /\ SwitchedFresh
    /\ CHAT_TOKEN_CORRECTION_FACTOR # 1000
    /\ chat_metadata.saved
    /\ chat_metadata.correction_factor = CHAT_TOKEN_CORRECTION_FACTOR

\* ------------------------------------------------- C39 closed loop
\* The correction factor in closed loop: every cutoff decision predicts the
\* chat size with the factor in use, every generation costs k times the
\* raw estimate (k in thousandths).
ClosedLoopStarts == {500, 1000, 2000}
ClosedLoopRatios == {250, 1000, 2250, 4000}

\* Raw estimates of the live messages (tokens).
RawEstimates == <<400, 600>>
RawTotal == RawEstimates[1] + RawEstimates[2]

\* estimateChatSize over the live messages: Math.floor(raw * factor) each.
PredictedChat(cf) ==
    (RawEstimates[1] * cf) \div 1000 + (RawEstimates[2] * cf) \div 1000

RealizedChat(k) == (k * RawTotal) \div 1000

\* The ratio realized / raw of the run (thousandths).
ClosedLoopRatio == (rawPrompt.chat * 1000) \div RawTotal

InitClosedLoop ==
    \E st \in SettingsSet({8}, {1}, {1}, {FALSE}) :
        \E cf \in ClosedLoopStarts : InitFrom(st, Null, cf)

NextClosedLoop ==
    \E k \in ClosedLoopRatios :
        /\ fed = << >> \/ rawPrompt.chat = RealizedChat(k)
        /\ FactorUpdate(PredictedChat(CHAT_TOKEN_CORRECTION_FACTOR), RealizedChat(k))

SpecClosedLoop == InitClosedLoop /\ [][NextClosedLoop]_vars

\* C39: in closed loop, with every realized chat size k x the raw estimate,
\* repeated correction-factor updates drive the factor to k.
C39_ClosedLoopConvergesToRatio ==
    Len(fed) >= ConvergenceUpdates =>
        Abs(CHAT_TOKEN_CORRECTION_FACTOR - ClosedLoopRatio) < ConvergenceTolerance

\* What does hold: each update measures k / factor, and the factor settles
\* where factor x factor = k, which is k only for k = 1.
C39_ClosedLoopConvergesToRoot ==
    /\ \A i \in 1 .. Len(fed) :
           Abs(fed[i].ratio * fed[i].before - 1000 * ClosedLoopRatio)
               <= 2 * fed[i].ratio + fed[i].before
    /\ Len(fed) >= ConvergenceUpdates =>
           Abs(CHAT_TOKEN_CORRECTION_FACTOR * CHAT_TOKEN_CORRECTION_FACTOR
               - 1000 * ClosedLoopRatio)
               <= 2 * ConvergenceTolerance * CHAT_TOKEN_CORRECTION_FACTOR

\* Realized cost four times the raw estimate: the factor has settled at 2.
C39_SettledAtRoot ==
    /\ Len(fed) >= ConvergenceUpdates
    /\ ClosedLoopRatio = 4000
    /\ Abs(CHAT_TOKEN_CORRECTION_FACTOR - 2000) < ConvergenceTolerance

\* Realized cost equal to the raw estimate: the factor has settled at 1.
C39_SettledAtOne ==
    /\ Len(fed) >= ConvergenceUpdates
    /\ ClosedLoopRatio = 1000
    /\ fed[1].before = 2000
    /\ Abs(CHAT_TOKEN_CORRECTION_FACTOR - 1000) < ConvergenceTolerance

\* ------------------------------------------------- C40 switch while queued
\* The conversations switched to while summaries are queued: shorter and as
\* long as the one left, with no message below a cutoff.
StaleChats ==
    { << NewMessage(1, TRUE) >>,
      << NewMessage(1, TRUE), NewMessage(2, FALSE), NewMessage(1, TRUE) >> }

InitStale ==
    InitQueueWith(QueueChat(ProfileLength, ProfileCutoff), ProfileCutoff, {""}, {"main"})

NextStale ==
    \/ SummarizeAll
    \/ AutoSummarize
    \/ \E c \in StaleChats : ChatSwitched(c, NoMetadata)
    \/ \E t \in 1 .. MaxLoops : \E outcome \in GenerationOutcomes :
           GenerationReturns(t, outcome)
    \/ \E t \in 1 .. MaxLoops : ProcessLoop(t)

SpecStale == InitStale /\ [][NextStale]_vars

\* A summarize_message call for an index queued before the last switch has
\* passed its checks and works on the message at that index now.
StaleInProgress ==
    \E t \in DOMAIN summaryQueue.loops :
        /\ summaryQueue.loops[t].stale
        /\ summaryQueue.loops[t].pc \in {"profile", "switch", "generate", "restore"}

\* The generateRaw call of a summarize_message call that was running at a
\* switch returns.
ForeignReturns ==
    \E t \in DOMAIN summaryQueue.loops :
        /\ summaryQueue.loops[t].foreign
        /\ summaryQueue.loops[t].pc = "generate"
        /\ t \in DOMAIN summaryQueue'.loops
        /\ summaryQueue'.loops[t].pc # "generate"

Summaries(c) == {k \in 1 .. Len(c) : c[k].memory}

\* C40: after a conversation switch no index enqueued for the previous
\* conversation is processed against the new conversation's messages (items
\* still queued are dropped or skipped), and a summary produced from the
\* previous conversation is never written onto a message of the new one.
C40_NoStaleIndexProcessed ==
    /\ [](~StaleInProgress)
    /\ [][ForeignReturns => Summaries(chat') = Summaries(chat)]_vars

\* What does hold: the call in flight at the switch writes to the message
\* it captured, not to the new conversation; a queued index beyond the end
\* of the new conversation is skipped.
C40_InFlightSummaryNotWritten ==
    /\ [][ForeignReturns =>
            (/\ Summaries(chat') = Summaries(chat)
             /\ \A k \in 1 .. Len(chat) : chat'[k].error = chat[k].error)]_vars
    /\ [](\A t \in DOMAIN summaryQueue.loops :
             (summaryQueue.loops[t].stale
              /\ ~summaryQueue.loops[t].foreign
              /\ summaryQueue.loops[t].index + 1 \notin DOMAIN chat)
                 => summaryQueue.loops[t].pc = "loop")

\* The message of the new conversation at an index queued for the old one
\* has been summarized, above every cutoff.
C40_StaleSummaryStored ==
    /\ last.op = "summary_stored"
    /\ \E t \in DOMAIN summaryQueue.loops :
           /\ summaryQueue.loops[t].stale
           /\ ~summaryQueue.loops[t].foreign
           /\ chat[summaryQueue.loops[t].index + 1].memory
           /\ ~chat[summaryQueue.loops[t].index + 1].lagging

\* A call in flight at the switch has returned with a result.
C40_ForeignReturned ==
    /\ last.op = "summary_stored"
    /\ \E t \in DOMAIN summaryQueue.loops :
           /\ summaryQueue.loops[t].foreign
           /\ summaryQueue.loops[t].pc = "loop"
           /\ Summaries(chat) = {}
====
